---- MODULE Spec2Model ----
(***************************************************************************)
(* hienoi: particle store (DynamicArray), pending buffer (OrderedBuffer)   *)
(* and ParticleSimulation, modelled from src/hienoi/_dynamicarray.py,      *)
(* src/hienoi/_orderedbuffer.py and src/hienoi/dynamics.py.                *)
(*                                                                         *)
(* Numbers: float32 positions/velocities/forces are modelled by integers   *)
(* (mass stays at its default 1.0, so force * time_step / mass is exact).  *)
(* Particle ids are Int32 in the source; the model keeps ids far below     *)
(* 2^31, where the Int32 conversion is the identity.                       *)
(* numpy.empty storage is filled with the marker Garbage, so that a read   *)
(* of a never-written slot shows up in the store.                          *)
(***************************************************************************)
EXTENDS Integers, Sequences, FiniteSets, TLC

\* ------------------------------------------------------------------ bounds
\* The simulation: the largest id handed out, the largest count given to
\* add_particles, the time stepping stops at, and the three parameters of
\* __init__ (time_step, particle_bucket_buffer_capacity,
\* initial_particle_capacity).
MaxId == 1
MaxBulk == 2
MaxTime == 2
TimeStep == 1
BucketCapacity == 1
InitialCapacity == 1
\* The stand-alone OrderedBuffer: its bucket_capacity, the longest array given
\* to extend, and the most elements held between two clears.
BufCapacity == 2
MaxExtend == 3
MaxElems == 5
\* The stand-alone DynamicArray: the largest capacity given to __init__, the
\* largest size asked of grow and resize or reached by append and extend,
\* and the longest array given to extend.
DAInitCapacity == 1
DAMaxSize == 5
DAMaxExtend == 2
\* The stand-alone KDTree: the most points it is built over, the largest
\* bucket_size, and the largest radius given to search.
KDMaxPoints == 3
KDMaxBucket == 2
KDMaxRadius == 2
\* The constructors: the largest bucket_capacity given to OrderedBuffer.
NewMaxCapacity == 3
\* The application: the most updates the GUI process requests, and the most
\* RUN_CALLBACKS messages it sends.
AppMaxUpdates == 2
AppMaxCallbacks == 2
\* The messages a pipe holds before a send into it blocks.
PipeCapacity == 1

VARIABLES
    time_step,   \* ParticleSimulation._time_step
    time,        \* ParticleSimulation._time
    last_id,     \* ParticleSimulation._last_id
    array,       \* ParticleSimulation._array (DynamicArray)
    buffer,      \* ParticleSimulation._buffer (OrderedBuffer)
    kd_tree,     \* ParticleSimulation._kd_tree
    callbacks,   \* which of the three callbacks were given to __init__
    pc,          \* position inside __init__ / step()
    last_op,     \* the last call made on the simulation and its outcome
    created,     \* history: ids written into new particles, in creation order
    hist,        \* history of the step() in progress: the ids added and
                 \* marked not-alive by its callbacks, the ids it integrated
    ob,          \* a stand-alone OrderedBuffer
    ob_refs,     \* history: references handed out by append/extend since clear
    ob_inserted, \* history: elements inserted since the last clear
    ob_op,       \* the last call made on the stand-alone buffer, and the
                 \* number of buckets before it
    da,          \* a stand-alone DynamicArray
    da_list,     \* the plain list the stand-alone DynamicArray stands for
    da_op,       \* the last call made on the stand-alone DynamicArray, with
                 \* its length and capacity before the call
    kdt,         \* a stand-alone KDTree
    kdt_op,      \* the last search made on the stand-alone KDTree
    made,        \* the last constructor call and what it built
    gui,         \* _gui_process: its position and local variables
    psim,        \* _particle_simulation_process: position and local variables
    main,        \* _main_process: its position and the status it returns
    chan,        \* the queues and pipes of _run, with the items in flight
    stats        \* history: messages sent and received so far

vars == <<time_step, time, last_id, array, buffer, kd_tree, callbacks, pc, last_op,
          created, hist, ob, ob_refs, ob_inserted, ob_op, da, da_list, da_op,
          kdt, kdt_op, made, gui, psim, main, chan, stats>>

simVars == <<time_step, time, last_id, array, buffer, kd_tree, callbacks, pc, last_op,
             created, hist>>
obVars == <<ob, ob_refs, ob_inserted, ob_op>>
daVars == <<da, da_list, da_op>>
\* What a call on one object leaves alone: the other objects.
kdVars == <<kdt, kdt_op>>
newVars == <<made>>
appVars == <<gui, psim, main, chan, stats>>
nonSimVars == <<obVars, daVars, kdVars, newVars, appVars>>
nonObVars == <<simVars, daVars, kdVars, newVars, appVars>>
nonDaVars == <<simVars, obVars, kdVars, newVars, appVars>>
nonKdVars == <<simVars, obVars, daVars, newVars, appVars>>
nonNewVars == <<simVars, obVars, daVars, kdVars, appVars>>
nonAppVars == <<simVars, obVars, daVars, kdVars, newVars>>

\* --------------------------------------------------------------- sequences
Max(a, b) == IF a >= b THEN a ELSE b

Take(s, n) == SubSeq(s, 1, n)

Drop(s, n) == SubSeq(s, n + 1, Len(s))

RECURSIVE Flatten(_)
Flatten(ss) == IF ss = <<>> THEN <<>> ELSE Head(ss) \o Flatten(Tail(ss))

RECURSIVE SumSeq(_)
SumSeq(s) == IF s = <<>> THEN 0 ELSE Head(s) + SumSeq(Tail(s))

\* s[i + 1 .. i + Len(d)] = d  (numpy slice assignment, 0-based offset i)
WriteAt(s, i, d) ==
    [k \in 1..Len(s) |-> IF k > i /\ k <= i + Len(d) THEN d[k - i] ELSE s[k]]

\* numpy.arange(first, stop)
Arange(first, stop) == [k \in 1..(stop - first) |-> first + k - 1]

\* numpy.empty(n): storage that was never written
Garbage == [uninit |-> TRUE]

Empty(n) == [k \in 1..n |-> Garbage]

\* ------------------------------------------------------------ DynamicArray
\* A DynamicArray is [array |-> the storage, capacity long, size |-> _size].
DA_new(capacity) == [array |-> Empty(capacity), size |-> 0]

DA_len(a) == a.size

\* array[:size]; a negative size counts from the end of the storage.
DA_data(a) ==
    Take(a.array, IF a.size >= 0 THEN a.size
                  ELSE Max(Len(a.array) + a.size, 0))

DA_capacity(a) == Len(a.array)

\* Faulty variant: the growth factor is left out.
GrowTarget_NoFactor(len) == Max(len, 4)

\* int(max(len * _GROW_FACTOR, math.ceil(1.0 / (_GROW_FACTOR - 1.0)) * 2))
\* with _GROW_FACTOR = 1.5: int(max(len * 1.5, 4))
GrowTarget(len) == Max((len * 3) \div 2, 4)

DA_grow(a, requested, copy) ==
    IF requested <= Len(a.array) THEN a
    ELSE LET capacity == Max(requested, GrowTarget(Len(a.array)))
             fresh == Empty(capacity)
         IN  IF copy
             THEN [array |-> WriteAt(fresh, 0, Take(a.array, a.size)),
                   size |-> a.size]
             ELSE [array |-> fresh, size |-> 0]

DA_resize(a, requested, copy) ==
    [DA_grow(a, requested, copy) EXCEPT !.size = requested]

\* append and extend, for an array whose size is not negative.
DA_append(a, elem) ==
    LET grown == DA_grow(a, a.size + 1, TRUE)
    IN  [array |-> WriteAt(grown.array, a.size, <<elem>>), size |-> a.size + 1]

\* Faulty variant: the storage is reallocated without copying.
DA_extend_NoCopy(a, data) ==
    LET new_size == a.size + Len(data)
        grown == DA_grow(a, new_size, FALSE)
    IN  [array |-> WriteAt(grown.array, a.size, data), size |-> new_size]

DA_extend(a, data) ==
    LET new_size == a.size + Len(data)
        grown == DA_grow(a, new_size, TRUE)
    IN  [array |-> WriteAt(grown.array, a.size, data), size |-> new_size]

DA_clear(a) == [a EXCEPT !.size = 0]

\* ----------------------------------------------------------- OrderedBuffer
\* An OrderedBuffer is [buckets, pos, bunchs]; pos and a bunch's position are
\* <<i, j>> with 0-based bucket index i and offset j, as in the source.
OB_new == [buckets |-> <<>>, pos |-> <<0, 0>>, bunchs |-> <<>>]

\* Faulty variant: a bucket capacity of 0 is let through.
OB_init_ZeroCapacity(bucket_capacity) ==
    IF bucket_capacity < 0
    THEN [status |-> "ValueError"]
    ELSE [status |-> "built", bucket_capacity |-> bucket_capacity,
          buffer |-> OB_new]

\* OrderedBuffer(bucket_capacity, dtype): the error raised, or the buffer
\* with its bucket capacity.
OB_init(bucket_capacity) ==
    IF bucket_capacity < 1
    THEN [status |-> "ValueError"]
    ELSE [status |-> "built", bucket_capacity |-> bucket_capacity,
          buffer |-> OB_new]

OB_len(b, cap) ==
    cap * b.pos[1] + b.pos[2]
    + SumSeq([k \in 1..Len(b.bunchs) |-> Len(b.bunchs[k].data)])

\* The walk of the chunks property: from cursor <<i, j>> up to position
\* <<m, n>>, the bucket slices passed on the way.
RECURSIVE BucketSlices(_, _, _, _, _)
BucketSlices(buckets, i, j, m, n) ==
    IF i < m
    THEN <<Drop(buckets[i + 1], j)>> \o BucketSlices(buckets, i + 1, 0, m, n)
    ELSE IF j < n THEN <<SubSeq(buckets[i + 1], j + 1, n)>> ELSE <<>>

RECURSIVE ChunksFrom(_, _, _, _)
ChunksFrom(buckets, bunchs, i, j) ==
    IF bunchs = <<>> THEN <<>>
    ELSE LET bunch == Head(bunchs)
             m == bunch.position[1]
             n == bunch.position[2]
         IN  BucketSlices(buckets, i, j, m, n)
             \o (IF Len(bunch.data) > 0 THEN <<bunch.data>> ELSE <<>>)
             \o ChunksFrom(buckets, Tail(bunchs), m, n)

OB_chunks(b) ==
    ChunksFrom(b.buckets,
               b.bunchs \o <<[position |-> b.pos, data |-> <<>>]>>, 0, 0)

\* Faulty variant: clear forgets the bunchs.
OB_clear_KeepBunchs(b) == [b EXCEPT !.pos = <<0, 0>>]

OB_clear(b) == [b EXCEPT !.pos = <<0, 0>>, !.bunchs = <<>>]

\* Faulty variant: the position never moves on to the next bucket.
NextPos_SameBucket(i, j, size, cap) == <<i, (j + size) % cap>>

\* The position after size elements were written at offset j of bucket i.
NextPos(i, j, size, cap) ==
    LET j2 == (j + size) % cap
    IN  <<IF j2 = 0 THEN i + 1 ELSE i, j2>>

\* Faulty variant: data filling the bucket exactly is turned away to a bunch.
OB_push_StrictFit(b, data, size, cap) ==
    LET i == b.pos[1]
        j == b.pos[2]
    IN  IF cap - j > size
        THEN LET buckets1 == IF i = Len(b.buckets)
                             THEN Append(b.buckets, Empty(cap))
                             ELSE b.buckets
             IN  [b EXCEPT
                    !.buckets = [buckets1 EXCEPT
                                    ![i + 1] = WriteAt(buckets1[i + 1], j, data)],
                    !.pos = NextPos(i, j, size, cap)]
        ELSE [b EXCEPT
                !.bunchs = Append(b.bunchs, [position |-> b.pos, data |-> data])]

\* _push: the buffer afterwards; the reference handed back is PushRef.
OB_push(b, data, size, cap) ==
    LET i == b.pos[1]
        j == b.pos[2]
    IN  IF cap - j >= size
        THEN LET buckets1 == IF i = Len(b.buckets)
                             THEN Append(b.buckets, Empty(cap))
                             ELSE b.buckets
             IN  [b EXCEPT
                    !.buckets = [buckets1 EXCEPT
                                    ![i + 1] = WriteAt(buckets1[i + 1], j, data)],
                    !.pos = NextPos(i, j, size, cap)]
        ELSE [b EXCEPT
                !.bunchs = Append(b.bunchs, [position |-> b.pos, data |-> data])]

\* Where _push put the data: a slice of a bucket, or a bunch of its own.
PushRef(b, size, cap) ==
    IF cap - b.pos[2] >= size
    THEN [kind |-> "bucket", i |-> b.pos[1], j |-> b.pos[2], size |-> size]
    ELSE [kind |-> "bunch", i |-> Len(b.bunchs), j |-> 0, size |-> size]

OB_append(b, elem, cap) == OB_push(b, <<elem>>, 1, cap)

OB_extend(b, data, cap) ==
    IF Len(data) < 1 THEN b ELSE OB_push(b, data, Len(data), cap)

\* The element a reference designates (offset k, 0-based, inside the slice).
ReadRef(b, ref, k) ==
    IF ref.kind = "bucket" THEN b.buckets[ref.i + 1][ref.j + k + 1]
    ELSE b.bunchs[ref.i + 1].data[k + 1]

\* An in-place change made through a reference.
WriteRef(b, ref, k, elem) ==
    IF ref.kind = "bucket"
    THEN [b EXCEPT !.buckets[ref.i + 1][ref.j + k + 1] = elem]
    ELSE [b EXCEPT !.bunchs[ref.i + 1].data[k + 1] = elem]

\* ------------------------------------------------------------------ KDTree
\* Points are <<x, y>> with integer coordinates, distances are squared
\* distances.  numpy.inf is modelled by Infinity and numpy.nan by NaN, two
\* numbers no squared distance takes.  An argument that may be None is a
\* record [some, v]: None is [some |-> FALSE, v |-> 0].
Infinity == -1

NaN == -2

None == [some |-> FALSE, v |-> 0]

Some(v) == [some |-> TRUE, v |-> v]

Sq(x) == x * x

\* d > limit, d <= limit and d < limit, for a limit that may be numpy.inf
Gt(d, limit) == limit # Infinity /\ d > limit

Le(d, limit) == limit = Infinity \/ d <= limit

Lt(d, limit) == limit = Infinity \/ d < limit

\* Faulty variant: the largest element is taken for the smallest.
SetMin_Largest(S) == CHOOSE x \in S : \A y \in S : x >= y

SetMin(S) == CHOOSE x \in S : \A y \in S : x <= y

SetMax(S) == CHOOSE x \in S : \A y \in S : x >= y

\* numpy.sum((point - points) ** 2, axis=-1), for one point
SqDist(point, q) == Sq(point[1] - q[1]) + Sq(point[2] - q[2])

pt_to_node_near_dist(point, lower_bounds, upper_bounds) ==
    Sq(Max(0, Max(point[1] - upper_bounds[1], lower_bounds[1] - point[1])))
    + Sq(Max(0, Max(point[2] - upper_bounds[2], lower_bounds[2] - point[2])))

\* Faulty variant: the distance to the near side of the bounds is taken for
\* the distance to the far side.
pt_to_node_far_dist_Near(point, lower_bounds, upper_bounds) ==
    Sq(Max(0, Max(point[1] - upper_bounds[1], lower_bounds[1] - point[1])))
    + Sq(Max(0, Max(point[2] - upper_bounds[2], lower_bounds[2] - point[2])))

pt_to_node_far_dist(point, lower_bounds, upper_bounds) ==
    Sq(Max(0, Max(upper_bounds[1] - point[1], point[1] - lower_bounds[1])))
    + Sq(Max(0, Max(upper_bounds[2] - point[2], point[2] - lower_bounds[2])))

\* _build, the first pass: the loop over the stack, whose entries are the
\* indices of a node and the index of its parent (-1 for None).  built is
\* [nodes, parents, buckets] so far.  The split is at the middle of the
\* longest side (the first one when both are as long).  When no point is
\* beyond the split, the left entry is the entry just taken and the loop
\* never ends: diverges.
RECURSIVE KD_first_pass(_, _, _, _)
KD_first_pass(data, bucket_size, stack, built) ==
    IF stack = <<>> THEN built
    ELSE LET indices == Head(stack).indices
             parent == Head(stack).parent
             i == Len(built.nodes)
             coords(c) == {data[indices[k] + 1][c] : k \in 1..Len(indices)}
             lower_bounds == <<SetMin(coords(1)), SetMin(coords(2))>>
             upper_bounds == <<SetMax(coords(1)), SetMax(coords(2))>>
             Node(bucket) == [size |-> 1, bucket |-> bucket,
                              lower_bounds |-> lower_bounds,
                              upper_bounds |-> upper_bounds]
         IN  IF Len(indices) <= bucket_size
             THEN KD_first_pass(
                      data, bucket_size, Tail(stack),
                      [built EXCEPT
                          !.nodes = Append(@, Node(Len(built.buckets))),
                          !.parents = Append(@, parent),
                          !.buckets = Append(@, indices)])
             ELSE LET split_axis ==
                          IF upper_bounds[1] - lower_bounds[1]
                                 >= upper_bounds[2] - lower_bounds[2]
                          THEN 1 ELSE 2
                      \* twice the split location, to stay within the
                      \* integers
                      split_twice == lower_bounds[split_axis]
                                     + upper_bounds[split_axis]
                      IsLeft(n) == 2 * data[n + 1][split_axis] <= split_twice
                      IsRight(n) == 2 * data[n + 1][split_axis] > split_twice
                      left_indices == SelectSeq(indices, IsLeft)
                      right_indices == SelectSeq(indices, IsRight)
                  IN  IF right_indices = <<>>
                      THEN [built EXCEPT !.diverges = TRUE]
                      ELSE KD_first_pass(
                               data, bucket_size,
                               <<[indices |-> left_indices, parent |-> i],
                                 [indices |-> right_indices, parent |-> i]>>
                                   \o Tail(stack),
                               [built EXCEPT
                                   !.nodes = Append(@, Node(-1)),
                                   !.parents = Append(@, parent)])

\* Faulty variant: the nodes are gone through from the first to the last.
RECURSIVE KD_second_pass_Forward(_, _, _)
KD_second_pass_Forward(nodes, parents, i) ==
    IF i < 1 THEN nodes
    ELSE LET before == KD_second_pass_Forward(nodes, parents, i - 1)
         IN  [before EXCEPT ![parents[i + 1] + 1].size =
                                @ + before[i + 1].size]

\* _build, the second pass: from the last node i to node 1, the size of a
\* node is added to the size of its parent.
RECURSIVE KD_second_pass(_, _, _)
KD_second_pass(nodes, parents, i) ==
    IF i < 1 THEN nodes
    ELSE KD_second_pass([nodes EXCEPT ![parents[i + 1] + 1].size =
                                          @ + nodes[i + 1].size],
                        parents, i - 1)

\* KDTree(data, bucket_size).  status is "built", "ValueError" (nothing was
\* built: bucket_size below 1, or numpy.amin over no point at all) or
\* "hangs" (_build never returns).
KD_unbuilt(status, data, bucket_size) ==
    [status |-> status, data |-> data, bucket_size |-> bucket_size,
     nodes |-> <<>>, parents |-> <<>>, buckets |-> <<>>]

KD_new(data, bucket_size) ==
    IF bucket_size < 1 THEN KD_unbuilt("ValueError", <<>>, 0)
    ELSE IF Len(data) = 0 THEN KD_unbuilt("ValueError", data, bucket_size)
    ELSE LET built == KD_first_pass(
                          data, bucket_size,
                          <<[indices |-> Arange(0, Len(data)),
                             parent |-> -1]>>,
                          [diverges |-> FALSE, nodes |-> <<>>,
                           parents |-> <<>>, buckets |-> <<>>])
         IN  IF built.diverges THEN KD_unbuilt("hangs", data, bucket_size)
             ELSE [status |-> "built", data |-> data,
                   bucket_size |-> bucket_size,
                   nodes |-> KD_second_pass(built.nodes, built.parents,
                                            Len(built.nodes) - 1),
                   parents |-> built.parents,
                   buckets |-> built.buckets]

Neighbour(squared_distance, index) ==
    [squared_distance |-> squared_distance, index |-> index]

\* The order of the tuples (-dist, j) in the heap of nearests, and of a sort
\* by squared_distance (the index breaks the ties in numpy's sort).
HeapBefore(a, b) ==
    \/ a.squared_distance > b.squared_distance
    \/ a.squared_distance = b.squared_distance /\ a.index < b.index

SortBefore(a, b) ==
    \/ a.squared_distance < b.squared_distance
    \/ a.squared_distance = b.squared_distance /\ a.index < b.index

\* Faulty variant: the nearest neighbour is popped.
HeapPushPop_Nearest(nearests, item) ==
    LET all == nearests \cup {item}
        popped == CHOOSE a \in all : \A b \in all \ {a} : SortBefore(a, b)
    IN  [nearests |-> all \ {popped}, popped |-> popped]

\* heapq.heappushpop: the item is pushed, the smallest tuple is popped.
HeapPushPop(nearests, item) ==
    LET all == nearests \cup {item}
        popped == CHOOSE a \in all : \A b \in all \ {a} : HeapBefore(a, b)
    IN  [nearests |-> all \ {popped}, popped |-> popped]

\* out.sort(order='squared_distance') over a set of neighbours
RECURSIVE SortNeighbours(_)
SortNeighbours(S) ==
    IF S = {} THEN <<>>
    ELSE LET first == CHOOSE a \in S : \A b \in S \ {a} : SortBefore(a, b)
         IN  <<first>> \o SortNeighbours(S \ {first})

Range(s) == {s[k] : k \in 1..Len(s)}

\* What _search_k_nearests did with a node taken from the stack (node is
\* its index) or with a point of a leaf (node is -1): the distance to it,
\* dist_limit before and after, the nearests held after, whether it was
\* passed over, and the distance of the neighbour popped, if one was.
Visit(node, dist, before, limit, held, skipped, popped) ==
    [node |-> node, dist |-> dist, before |-> before, limit |-> limit,
     held |-> held, skipped |-> skipped, popped |-> popped]

\* Faulty variant: dist_limit stays as it is when a neighbour is popped.
RECURSIVE KD_scan_leaf_KeepLimit(_, _, _, _, _, _)
KD_scan_leaf_KeepLimit(data, point, indices, k, count, s) ==
    IF k > Len(indices) THEN s
    ELSE LET j == indices[k]
             dist == SqDist(point, data[j + 1])
             s1 == IF Lt(dist, s.dist_limit)
                   THEN IF Cardinality(s.nearests) >= count
                        THEN LET pp == HeapPushPop(s.nearests,
                                                   Neighbour(dist, j))
                             IN  [nearests |-> pp.nearests,
                                  dist_limit |-> s.dist_limit,
                                  trace |-> Append(s.trace,
                                      Visit(-1, dist, s.dist_limit,
                                            s.dist_limit,
                                            pp.nearests, FALSE,
                                            Some(pp.popped.squared_distance)))]
                        ELSE LET nearests == s.nearests
                                                 \cup {Neighbour(dist, j)}
                             IN  [s EXCEPT
                                     !.nearests = nearests,
                                     !.trace = Append(@,
                                         Visit(-1, dist, s.dist_limit,
                                               s.dist_limit, nearests,
                                               FALSE, None))]
                   ELSE [s EXCEPT
                            !.trace = Append(@,
                                Visit(-1, dist, s.dist_limit, s.dist_limit,
                                      s.nearests, TRUE, None))]
         IN  KD_scan_leaf_KeepLimit(data, point, indices, k + 1, count, s1)

\* _search_k_nearests, the loop over the points of a leaf from the k-th on.
\* s is [nearests, dist_limit, trace].
RECURSIVE KD_scan_leaf(_, _, _, _, _, _)
KD_scan_leaf(data, point, indices, k, count, s) ==
    IF k > Len(indices) THEN s
    ELSE LET j == indices[k]
             dist == SqDist(point, data[j + 1])
             s1 == IF Lt(dist, s.dist_limit)
                   THEN IF Cardinality(s.nearests) >= count
                        THEN LET pp == HeapPushPop(s.nearests,
                                                   Neighbour(dist, j))
                             IN  [nearests |-> pp.nearests,
                                  dist_limit |-> pp.popped.squared_distance,
                                  trace |-> Append(s.trace,
                                      Visit(-1, dist, s.dist_limit,
                                            pp.popped.squared_distance,
                                            pp.nearests, FALSE,
                                            Some(pp.popped.squared_distance)))]
                        ELSE LET nearests == s.nearests
                                                 \cup {Neighbour(dist, j)}
                             IN  [s EXCEPT
                                     !.nearests = nearests,
                                     !.trace = Append(@,
                                         Visit(-1, dist, s.dist_limit,
                                               s.dist_limit, nearests,
                                               FALSE, None))]
                   ELSE [s EXCEPT
                            !.trace = Append(@,
                                Visit(-1, dist, s.dist_limit, s.dist_limit,
                                      s.nearests, TRUE, None))]
         IN  KD_scan_leaf(data, point, indices, k + 1, count, s1)

\* The stack after the two children of node i were put on it, the nearer
\* one first.
KD_push_children(tree, point, i, stack) ==
    LET left_node_idx == i + 1
        right_node_idx == i + 1 + tree.nodes[left_node_idx + 1].size
        pt_left_node_dist ==
            pt_to_node_near_dist(point,
                                 tree.nodes[left_node_idx + 1].lower_bounds,
                                 tree.nodes[left_node_idx + 1].upper_bounds)
        pt_right_node_dist ==
            pt_to_node_near_dist(point,
                                 tree.nodes[right_node_idx + 1].lower_bounds,
                                 tree.nodes[right_node_idx + 1].upper_bounds)
    IN  IF pt_left_node_dist <= pt_right_node_dist
        THEN <<<<left_node_idx, pt_left_node_dist>>,
               <<right_node_idx, pt_right_node_dist>>>> \o stack
        ELSE <<<<right_node_idx, pt_right_node_dist>>,
               <<left_node_idx, pt_left_node_dist>>>> \o stack

\* _search_k_nearests, the loop over the stack.
RECURSIVE KD_k_nearests_loop(_, _, _, _, _)
KD_k_nearests_loop(tree, point, count, stack, s) ==
    IF stack = <<>> THEN s
    ELSE LET i == Head(stack)[1]
             pt_node_dist == Head(stack)[2]
             node == tree.nodes[i + 1]
             taken(skipped) ==
                 [s EXCEPT !.trace = Append(@,
                     Visit(i, pt_node_dist, s.dist_limit, s.dist_limit,
                           s.nearests, skipped, None))]
         IN  IF Gt(pt_node_dist, s.dist_limit)
             THEN KD_k_nearests_loop(tree, point, count, Tail(stack),
                                     taken(TRUE))
             ELSE IF node.size = 1
             THEN KD_k_nearests_loop(
                      tree, point, count, Tail(stack),
                      KD_scan_leaf(tree.data, point,
                                   tree.buckets[node.bucket + 1], 1, count,
                                   taken(FALSE)))
             ELSE KD_k_nearests_loop(
                      tree, point, count,
                      KD_push_children(tree, point, i, Tail(stack)),
                      taken(FALSE))

KD_root_stack(tree, point) ==
    <<<<0, pt_to_node_near_dist(point, tree.nodes[1].lower_bounds,
                                tree.nodes[1].upper_bounds)>>>>

\* _search_k_nearests with sort=True; limit is radius ** 2.  (Unsorted, the
\* result is in the order of the heap's list, which is not modelled.)
KD_search_k_nearests(tree, point, count, limit) ==
    SortNeighbours(
        KD_k_nearests_loop(tree, point, count, KD_root_stack(tree, point),
                           [nearests |-> {}, dist_limit |-> limit,
                            trace |-> <<>>]).nearests)

\* The indices of the buckets of the leaves among nodes[i:i + size], in order.
RECURSIVE KD_leaf_indices(_, _, _)
KD_leaf_indices(tree, first, last) ==
    IF first > last THEN <<>>
    ELSE (IF tree.nodes[first + 1].size = 1
          THEN tree.buckets[tree.nodes[first + 1].bucket + 1] ELSE <<>>)
         \o KD_leaf_indices(tree, first + 1, last)

\* _search_all_within_radius, the loop over the stack; neighbours is the
\* sequence found so far, with NaN for a distance still to be computed.
RECURSIVE KD_all_within_loop(_, _, _, _, _)
KD_all_within_loop(tree, point, radius, stack, neighbours) ==
    IF stack = <<>> THEN neighbours
    ELSE LET i == Head(stack)[1]
             pt_node_near_dist == Head(stack)[2]
             node == tree.nodes[i + 1]
         IN  IF Gt(pt_node_near_dist, radius)
             THEN KD_all_within_loop(tree, point, radius, Tail(stack),
                                     neighbours)
             ELSE IF Le(pt_to_node_far_dist(point, node.lower_bounds,
                                            node.upper_bounds), radius)
             THEN LET indices == KD_leaf_indices(tree, i, i + node.size - 1)
                  IN  KD_all_within_loop(
                          tree, point, radius, Tail(stack),
                          neighbours \o [k \in 1..Len(indices) |->
                                            Neighbour(NaN, indices[k])])
             ELSE IF node.size = 1
             THEN LET indices == tree.buckets[node.bucket + 1]
                      IsWithin(j) == Le(SqDist(point, tree.data[j + 1]), radius)
                      within == SelectSeq(indices, IsWithin)
                  IN  KD_all_within_loop(
                          tree, point, radius, Tail(stack),
                          neighbours \o [k \in 1..Len(within) |->
                                Neighbour(SqDist(point, tree.data[within[k] + 1]),
                                          within[k])])
             ELSE KD_all_within_loop(
                      tree, point, radius,
                      KD_push_children(tree, point, i, Tail(stack)), neighbours)

\* _search_all_within_radius; radius is already squared.
KD_search_all_within_radius(tree, point, radius, sort) ==
    LET neighbours == KD_all_within_loop(tree, point, radius,
                                         KD_root_stack(tree, point), <<>>)
        computed == [k \in 1..Len(neighbours) |->
                        IF neighbours[k].squared_distance = NaN
                        THEN Neighbour(SqDist(point,
                                              tree.data[neighbours[k].index + 1]),
                                       neighbours[k].index)
                        ELSE neighbours[k]]
    IN  IF sort THEN SortNeighbours(Range(computed)) ELSE computed

\* Faulty variant: a count of 0 is let through.
KD_search_ZeroCount(tree, point, count, radius, sort) ==
    IF count.some /\ count.v < 0 THEN [path |-> "none", result |-> <<>>]
    ELSE IF radius.some /\ radius.v < 0 THEN [path |-> "none", result |-> <<>>]
    ELSE LET n == Len(tree.data)
             cnt == IF count.some THEN count.v ELSE n
             rad == IF radius.some THEN radius.v ELSE Infinity
         IN  IF cnt >= n
             THEN [path |-> "all",
                   result |-> KD_search_all_within_radius(
                                  tree, point,
                                  IF rad = Infinity THEN Infinity ELSE Sq(rad),
                                  sort)]
             ELSE [path |-> "nearests",
                   result |-> KD_search_k_nearests(
                                  tree, point, cnt,
                                  IF rad = Infinity THEN Infinity ELSE Sq(rad))]

\* search: the path taken ("none" when it returns before any traversal) and
\* the neighbours returned.
KD_search(tree, point, count, radius, sort) ==
    IF count.some /\ count.v < 1 THEN [path |-> "none", result |-> <<>>]
    ELSE IF radius.some /\ radius.v < 0 THEN [path |-> "none", result |-> <<>>]
    ELSE LET n == Len(tree.data)
             cnt == IF count.some THEN count.v ELSE n
             rad == IF radius.some THEN radius.v ELSE Infinity
         IN  IF cnt >= n
             THEN [path |-> "all",
                   result |-> KD_search_all_within_radius(
                                  tree, point,
                                  IF rad = Infinity THEN Infinity ELSE Sq(rad),
                                  sort)]
             ELSE [path |-> "nearests",
                   result |-> KD_search_k_nearests(
                                  tree, point, cnt,
                                  IF rad = Infinity THEN Infinity ELSE Sq(rad))]

\* ------------------------------------------------------ ParticleSimulation
\* The fields of _ATTRS the simulation itself reads or writes.
DefaultParticle ==
    [id |-> -1, alive |-> TRUE, position |-> <<0, 0>>, velocity |-> <<0, 0>>,
     force |-> <<0, 0>>, mass |-> 1]

\* Faulty variant: a key already given is kept (setdefault).
KwSet_KeepGiven(kw, key, value) ==
    IF key \in kw.keys THEN kw
    ELSE [kw EXCEPT !.keys = @ \cup {key}, ![key] = value]

\* Keyword arguments: keys is the set of names given, the fields their values.
KwSet(kw, key, value) == [kw EXCEPT !.keys = @ \cup {key}, ![key] = value]

\* namedtuple._replace(**kwargs)
Replace(rec, kw) ==
    [f \in DOMAIN rec |-> IF f \in kw.keys THEN kw[f] ELSE rec[f]]

\* Faulty variant: the id is not advanced.
NextId_Same(last) == Max(last, 0)

\* kwargs['id'] = self._last_id + 1
NextId(last) == last + 1

\* array[:] = default; array['id'] = arange(...)
NewParticles(last, count) ==
    LET ids == Arange(last + 1, last + 1 + count)
    IN  [k \in 1..count |-> [DefaultParticle EXCEPT !.id = ids[k]]]

\* chunk['alive']
AliveFilter(chunk) == [k \in 1..Len(chunk) |-> chunk[k].alive]

\* Faulty variant: the zeros are counted.
CountNonzero_Zeros(filter) == Cardinality({k \in 1..Len(filter) : ~filter[k]})

\* numpy.count_nonzero(filter)
CountNonzero(filter) == Cardinality({k \in 1..Len(filter) : filter[k]})

\* numpy.compress(filter, chunk): the selection is computed from the whole
\* input before anything is written to out (take with mode 'raise' copies).
RECURSIVE Compress(_, _)
Compress(filter, chunk) ==
    IF chunk = <<>> THEN <<>>
    ELSE (IF Head(filter) THEN <<Head(chunk)>> ELSE <<>>)
         \o Compress(Tail(filter), Tail(chunk))

\* Faulty variant: i is not advanced, every chunk is written at the start.
RECURSIVE CopyChunks_NoAdvance(_, _, _, _, _, _)
CopyChunks_NoAdvance(storage, i, k, filters, chunks, counts) ==
    IF k > Len(chunks) THEN storage
    ELSE LET piece == IF counts[k] = Len(chunks[k]) THEN chunks[k]
                      ELSE Compress(filters[k], chunks[k])
         IN  CopyChunks_NoAdvance(WriteAt(storage, i, piece), i, k + 1,
                                  filters, chunks, counts)

\* The copy loop of consolidate from chunk k on, i elements written so far.
\* The first chunk is a view of the storage when resize has kept it; it is
\* the first one copied, onto itself when whole, through the copy that
\* compress makes of its output otherwise, and the other chunks are storage
\* of the buffer.
RECURSIVE CopyChunks(_, _, _, _, _, _)
CopyChunks(storage, i, k, filters, chunks, counts) ==
    IF k > Len(chunks) THEN storage
    ELSE LET piece == IF counts[k] = Len(chunks[k]) THEN chunks[k]
                      ELSE Compress(filters[k], chunks[k])
         IN  CopyChunks(WriteAt(storage, i, piece), i + counts[k], k + 1,
                        filters, chunks, counts)

\* Faulty variant: the early return forgets to compare the sizes.
NothingToDo_NoSizeTest(buffer_len, new_size, array_len) == buffer_len = 0

\* The early return of consolidate.
NothingToDo(buffer_len, new_size, array_len) ==
    buffer_len = 0 /\ new_size = array_len

NoTree == [cached |-> FALSE, points |-> <<>>]

\* Storage the program cannot read before writing it again is forgotten, so
\* that states differing only in such storage are one state: the slots of the
\* array past its size (data is array[:size]) ...
ForgetTail(a) ==
    [a EXCEPT !.array = [k \in 1..Len(a.array) |->
                            IF k <= a.size THEN a.array[k] ELSE Garbage]]

\* ... and the slots of the buckets at or past the write position (chunks
\* stops at the position, _push writes a slot before moving past it).
ForgetFree(b) ==
    [b EXCEPT !.buckets =
        [i \in 1..Len(b.buckets) |->
            [j \in 1..Len(b.buckets[i]) |->
                IF i - 1 < b.pos[1] \/ (i - 1 = b.pos[1] /\ j - 1 < b.pos[2])
                THEN b.buckets[i][j] ELSE Garbage]]]

\* consolidate: the array, buffer and cached tree afterwards.
consolidate(arr, buf, tree) ==
    LET chunks == <<DA_data(arr)>> \o OB_chunks(buf)
        filters == [k \in 1..Len(chunks) |-> AliveFilter(chunks[k])]
        counts == [k \in 1..Len(chunks) |-> CountNonzero(filters[k])]
        new_size == SumSeq(counts)
    IN  IF NothingToDo(OB_len(buf, BucketCapacity), new_size, DA_len(arr))
        THEN [array |-> arr, buffer |-> buf, kd_tree |-> tree, early |-> TRUE]
        ELSE LET resized == DA_resize(arr, new_size, FALSE)
             IN  [array |-> ForgetTail(
                                [resized EXCEPT
                                    !.array = CopyChunks(resized.array, 0, 1,
                                                         filters, chunks, counts)]),
                  buffer |-> ForgetFree(OB_clear(buf)),
                  kd_tree |-> NoTree,
                  early |-> FALSE]

\* Faulty variant: the position is advanced by the velocity before its
\* update.
Solve_OldVelocity(p, dt) ==
    LET vx == p.velocity[1] + (p.force[1] * dt) \div p.mass
        vy == p.velocity[2] + (p.force[2] * dt) \div p.mass
    IN  [p EXCEPT !.velocity = <<vx, vy>>,
                  !.position = <<p.position[1] + p.velocity[1] * dt,
                                 p.position[2] + p.velocity[2] * dt>>,
                  !.force = <<0, 0>>]

\* _solve followed by particles['force'] = 0, for one particle.
Solve(p, dt) ==
    LET vx == p.velocity[1] + (p.force[1] * dt) \div p.mass
        vy == p.velocity[2] + (p.force[2] * dt) \div p.mass
    IN  [p EXCEPT !.velocity = <<vx, vy>>,
                  !.position = <<p.position[1] + vx * dt,
                                 p.position[2] + vy * dt>>,
                  !.force = <<0, 0>>]

\* numpy.searchsorted(ids, id): bisection, leftmost insertion point (0-based).
RECURSIVE Bisect(_, _, _, _)
Bisect(ids, id, lo, hi) ==
    IF lo >= hi THEN lo
    ELSE LET mid == (lo + hi) \div 2
         IN  IF ids[mid + 1] < id THEN Bisect(ids, id, mid + 1, hi)
             ELSE Bisect(ids, id, lo, mid)

\* Faulty variant: the rightmost insertion point (side='right').
RECURSIVE BisectRight(_, _, _, _)
BisectRight(ids, id, lo, hi) ==
    IF lo >= hi THEN lo
    ELSE LET mid == (lo + hi) \div 2
         IN  IF ids[mid + 1] <= id THEN BisectRight(ids, id, mid + 1, hi)
             ELSE BisectRight(ids, id, lo, mid)

SearchSorted_Right(ids, id) == BisectRight(ids, id, 0, Len(ids))

SearchSorted(ids, id) == Bisect(ids, id, 0, Len(ids))

Ids(particles) == [k \in 1..Len(particles) |-> particles[k].id]

Positions(particles) == [k \in 1..Len(particles) |-> particles[k].position]

\* Faulty variant: get_particle also asks for the particle to be alive.
get_particle_AliveOnly(arr, id) ==
    LET idx == SearchSorted(Ids(DA_data(arr)), id)
    IN  IF /\ idx < DA_len(arr)
           /\ DA_data(arr)[idx + 1].id = id
           /\ DA_data(arr)[idx + 1].alive
        THEN [ok |-> TRUE, idx |-> idx]
        ELSE [ok |-> FALSE, idx |-> -1]

\* get_particle: the index found (0-based) or the ValueError.
get_particle(arr, id) ==
    LET idx == SearchSorted(Ids(DA_data(arr)), id)
    IN  IF idx < DA_len(arr) /\ DA_data(arr)[idx + 1].id = id
        THEN [ok |-> TRUE, idx |-> idx]
        ELSE [ok |-> FALSE, idx |-> -1]

\* Faulty variant: step() integrates right after presolve, and consolidates only
\* after the integration.
NextPc_SolveFirst(p, cbs) ==
    CASE p = "new" -> IF cbs.initialize THEN "initialize" ELSE "idle"
      [] p = "initialize" -> "init_consolidate"
      [] p = "init_consolidate" -> "idle"
      [] p = "idle" -> IF cbs.presolve THEN "presolve" ELSE "solve"
      [] p = "presolve" -> "solve"
      [] p = "solve" -> IF cbs.postsolve THEN "postsolve" ELSE "idle"
      [] p = "postsolve" -> "post_consolidate"
      [] p = "post_consolidate" -> "idle"

\* The control flow of __init__ and step(): the position after position p.
NextPc(p, cbs) ==
    CASE p = "new" -> IF cbs.initialize THEN "initialize" ELSE "idle"
      [] p = "initialize" -> "init_consolidate"
      [] p = "init_consolidate" -> "idle"
      [] p = "idle" -> IF cbs.presolve THEN "presolve" ELSE "solve"
      [] p = "presolve" -> "pre_consolidate"
      [] p = "pre_consolidate" -> "solve"
      [] p = "solve" -> IF cbs.postsolve THEN "postsolve" ELSE "idle"
      [] p = "postsolve" -> "post_consolidate"
      [] p = "post_consolidate" -> "idle"

\* Where the caller's code runs: between calls, or inside a callback.
UserPcs == {"idle", "initialize", "presolve", "postsolve"}

ConsolidatePcs == {"init_consolidate", "pre_consolidate", "post_consolidate"}

NoHist == [pre |-> {}, killed_pre |-> {}, solved |-> {}, post |-> {},
           killed_post |-> {}]

\* What is kept of the last call: its name, whether it raised; for
\* get_particle the id asked for and the index found; for add_particle
\* whether an id was given and which; for add_particles the count; for
\* consolidate whether it returned early.
Op(name) ==
    [name |-> name, error |-> FALSE, id |-> -1, idx |-> -1, given |-> FALSE,
     count |-> -1, early |-> FALSE]

\* The simulation right after the assignments of __init__, before any callback.
\* __init__ with the given time_step, which it stores as it is.
SimMake(cbs, step) ==
    /\ time_step = step
    /\ time = 0
    /\ last_id = -1
    /\ array = DA_new(InitialCapacity)
    /\ buffer = OB_new
    /\ kd_tree = NoTree
    /\ callbacks = cbs
    /\ pc = NextPc("new", cbs)
    /\ last_op = Op("init")
    /\ created = <<>>
    /\ hist = NoHist

SimNew(cbs) == SimMake(cbs, TimeStep)

SimIdle ==
    SimNew([initialize |-> FALSE, presolve |-> FALSE, postsolve |-> FALSE])

OBIdle ==
    /\ ob = OB_new
    /\ ob_refs = {}
    /\ ob_inserted = <<>>
    /\ ob_op = [name |-> "init", size |-> 0, full |-> FALSE, nbuckets |-> 0]

DAOp(name) ==
    [name |-> name, requested |-> 0, copy |-> TRUE, error |-> FALSE,
     len |-> 0, capacity |-> 0]

DANew(capacity) ==
    /\ da = DA_new(capacity)
    /\ da_list = <<>>
    /\ da_op = DAOp("init")

DAIdle == DANew(0)

KDOp(name) ==
    [name |-> name, point |-> <<0, 0>>, count |-> None, radius |-> None,
     sort |-> TRUE, path |-> "none", result |-> <<>>]

KDIdle ==
    /\ kdt = KD_new(<<<<0, 0>>>>, 1)
    /\ kdt_op = KDOp("init")

NoObject == [status |-> "none"]

Made(class, arg, error, object) ==
    [class |-> class, arg |-> arg, error |-> error, object |-> object]

NewIdle == made = Made("none", 0, FALSE, NoObject)

\* The application as _run starts its processes with a time step of step:
\* the simulation is at time 0 and the first partial state of the GUI
\* process is the one of time step.  NoCallbacks stands for callbacks of
\* None.
NoCallbacks == 0

Abs(x) == IF x < 0 THEN -x ELSE x

Message(type) ==
    [type |-> type, time |-> 0, callbacks |-> NoCallbacks,
     process_name |-> ""]

\* What user code may raise: an exception that derives from Exception, or
\* one that derives from BaseException only (SystemExit, KeyboardInterrupt).
FaultKinds == {"Exception", "BaseException"}

\* except Exception: what _process_wrapper catches, the errors the GUI
\* process raises on an unexpected message included.
Caught(fault) == fault \notin {"none", "BaseException"}

AppMake(step) ==
    /\ gui = [pc |-> "control", request_sim_updates |-> TRUE,
              next_state |-> None, partial_time |-> step,
              has_particles |-> FALSE, current_time |-> 0,
              fault |-> "none"]
    /\ psim = [pc |-> "control", step |-> TRUE, send |-> FALSE,
               callbacks |-> NoCallbacks, time |-> 0, applied |-> <<>>,
               ran |-> <<>>, fault |-> "none"]
    /\ main = [pc |-> "wait", stops_left |-> 0, status |-> "none",
               joined |-> 0]
    /\ chan = [downwards |-> <<>>, upwards |-> <<>>,
               gui_to_psim |-> <<>>, psim_to_gui |-> <<>>]
    /\ stats = [requests_sent |-> 0, requests_received |-> 0,
                updates_sent |-> 0, updates_consumed |-> 0,
                callbacks_sent |-> 0, update_times |-> <<>>,
                quits_sent |-> 0, stops_sent |-> 0, steps |-> 0,
                callbacks_received |-> <<>>,
                stops_received |-> [gui |-> 0, particle_simulation |-> 0],
                errors_sent |-> [gui |-> 0, particle_simulation |-> 0]]

AppIdle == AppMake(TimeStep)

\* The keyword arguments add_particle is called with: nothing, an id (which
\* may be one already in use), a force, or both.
KwargsSet ==
    {kw \in [keys : SUBSET {"id", "force"}, id : {0, 99}, force : {<<1, 2>>}] :
        "id" \notin kw.keys => kw.id = 0}

\* The callbacks __init__ is given: none of the three, or all of them.
CallbackSets ==
    {[initialize |-> b, presolve |-> b, postsolve |-> b] : b \in BOOLEAN}

Init ==
    /\ \E cbs \in CallbackSets : SimNew(cbs)
    /\ OBIdle
    /\ DAIdle
    /\ KDIdle
    /\ NewIdle
    /\ AppIdle

\* The history with the ids a callback of step() added ...
HistAdd(ids) ==
    CASE pc = "presolve" -> [hist EXCEPT !.pre = @ \cup ids]
      [] pc = "postsolve" -> [hist EXCEPT !.post = @ \cup ids]
      [] OTHER -> hist

\* ... or marked not-alive.
HistKill(id) ==
    CASE pc = "presolve" -> [hist EXCEPT !.killed_pre = @ \cup {id}]
      [] pc = "postsolve" -> [hist EXCEPT !.killed_post = @ \cup {id}]
      [] OTHER -> hist

\* The history ends when step() returns.
HistAt(next_pc, h) == IF next_pc = "idle" THEN NoHist ELSE h

AddParticle(kw) ==
    /\ pc \in UserPcs
    /\ last_id + 1 <= MaxId
    /\ LET kwargs == KwSet(kw, "id", NextId(last_id))
           ref == PushRef(buffer, 1, BucketCapacity)
           buffer1 == OB_append(buffer, Replace(DefaultParticle, kwargs),
                                BucketCapacity)
           particle == ReadRef(buffer1, ref, 0)
       IN  /\ buffer' = buffer1
           /\ last_id' = particle.id
           /\ created' = Append(created, particle.id)
           /\ hist' = HistAdd({particle.id})
           /\ last_op' = [Op("add_particle") EXCEPT
                              !.given = "id" \in kw.keys,
                              !.id = IF "id" \in kw.keys THEN kw.id ELSE -1]
    /\ UNCHANGED <<time, array, kd_tree, callbacks, pc>>
    /\ UNCHANGED <<time_step, nonSimVars>>

\* add_particles(0): extend hands back an empty array, and reading its last
\* id raises IndexError; nothing was changed before that.
AddParticles(count) ==
    /\ pc \in UserPcs
    /\ last_id + count <= MaxId
    /\ LET data == NewParticles(last_id, count)
           ref == PushRef(buffer, count, BucketCapacity)
           buffer1 == OB_extend(buffer, data, BucketCapacity)
           particles == [k \in 1..count |-> ReadRef(buffer1, ref, k - 1)]
       IN  /\ buffer' = buffer1
           /\ IF count < 1
              THEN /\ UNCHANGED <<last_id, created, hist>>
                   /\ last_op' = [Op("add_particles") EXCEPT
                                      !.count = count, !.error = TRUE]
              ELSE /\ last_id' = particles[count].id
                   /\ created' = created \o Ids(particles)
                   /\ hist' = HistAdd({particles[k].id : k \in 1..count})
                   /\ last_op' = [Op("add_particles") EXCEPT !.count = count]
    /\ UNCHANGED <<time, array, kd_tree, callbacks, pc>>
    /\ UNCHANGED <<time_step, nonSimVars>>

\* particle.alive = False through a handle into the store.
KillInStore(k) ==
    /\ pc \in UserPcs
    /\ k \in 1..DA_len(array)
    /\ array.array[k].alive
    /\ array' = [array EXCEPT !.array[k].alive = FALSE]
    /\ last_op' = Op("kill")
    /\ hist' = HistKill(array.array[k].id)
    /\ UNCHANGED <<time, last_id, buffer, kd_tree, callbacks, pc, created>>
    /\ UNCHANGED <<time_step, nonSimVars>>

\* The references into the pending buffer still valid: every slot filled
\* since the last clear.
BufferRefs(b) ==
    {[kind |-> "bucket", i |-> i, j |-> j, size |-> 1] :
        i \in 0..b.pos[1], j \in 0..(BucketCapacity - 1)}
    \cup {[kind |-> "bunch", i |-> i, j |-> 0, size |-> MaxBulk + 1] :
            i \in 0..(Len(b.bunchs) - 1)}

RefInUse(b, ref, k) ==
    IF ref.kind = "bucket"
    THEN k = 0 /\ (ref.i < b.pos[1] \/ (ref.i = b.pos[1] /\ ref.j < b.pos[2]))
    ELSE k < Len(b.bunchs[ref.i + 1].data)

\* particle.alive = False through a handle into the pending buffer.
KillInBuffer(ref, k) ==
    /\ pc \in UserPcs
    /\ RefInUse(buffer, ref, k)
    /\ ReadRef(buffer, ref, k).alive
    /\ buffer' = WriteRef(buffer, ref, k,
                          [ReadRef(buffer, ref, k) EXCEPT !.alive = FALSE])
    /\ last_op' = Op("kill")
    /\ hist' = HistKill(ReadRef(buffer, ref, k).id)
    /\ UNCHANGED <<time, last_id, array, kd_tree, callbacks, pc, created>>
    /\ UNCHANGED <<time_step, nonSimVars>>

\* consolidate() called by the user, between steps or inside a callback.
Consolidate ==
    /\ pc \in UserPcs
    /\ LET r == consolidate(array, buffer, kd_tree)
       IN  /\ array' = r.array
           /\ buffer' = r.buffer
           /\ kd_tree' = r.kd_tree
           /\ last_op' = [Op("consolidate") EXCEPT !.early = r.early]
    /\ UNCHANGED <<time, last_id, callbacks, pc, created, hist>>
    /\ UNCHANGED <<time_step, nonSimVars>>

GetParticle(id) ==
    /\ pc \in UserPcs
    /\ last_op' = [Op("get_particle") EXCEPT
                      !.id = id,
                      !.idx = get_particle(array, id).idx,
                      !.error = ~get_particle(array, id).ok]
    /\ UNCHANGED <<time, last_id, array, buffer, kd_tree, callbacks, pc,
                   created, hist>>
    /\ UNCHANGED <<time_step, nonSimVars>>

\* KDTree(points): the index is a function of the positions it is built on;
\* building over no point at all raises (numpy.amin of an empty array).
KDTree(points) == [cached |-> TRUE, points |-> points]

\* get_neighbour_particles: builds the index if none is cached, then searches
\* it.
GetNeighbourParticles ==
    /\ pc \in UserPcs
    /\ IF kd_tree = NoTree /\ DA_len(array) = 0
       THEN /\ UNCHANGED kd_tree
            /\ last_op' = [Op("get_neighbour_particles") EXCEPT !.error = TRUE]
       ELSE /\ kd_tree' = IF kd_tree = NoTree
                          THEN KDTree(Positions(DA_data(array)))
                          ELSE kd_tree
            /\ last_op' = Op("get_neighbour_particles")
    /\ UNCHANGED <<time, last_id, array, buffer, callbacks, pc, created, hist>>
    /\ UNCHANGED <<time_step, nonSimVars>>

\* step(), first statement: the time advances; then the presolve callback
\* is entered, if there is one.
StepBegin ==
    /\ pc = "idle"
    /\ time + time_step <= MaxTime
    /\ time + time_step >= -MaxTime
    /\ time' = time + time_step
    /\ pc' = NextPc(pc, callbacks)
    /\ last_op' = Op("step")
    /\ UNCHANGED <<last_id, array, buffer, kd_tree, callbacks, created, hist>>
    /\ UNCHANGED <<time_step, nonSimVars>>

\* A callback returns to __init__ or step().
CallbackReturn ==
    /\ pc \in {"initialize", "presolve", "postsolve"}
    /\ pc' = NextPc(pc, callbacks)
    /\ last_op' = Op("return")
    /\ UNCHANGED <<time, last_id, array, buffer, kd_tree, callbacks, created, hist>>
    /\ UNCHANGED <<time_step, nonSimVars>>

\* The consolidate() that __init__ and step() run after a callback.
CallbackConsolidate ==
    /\ pc \in ConsolidatePcs
    /\ LET r == consolidate(array, buffer, kd_tree)
       IN  /\ array' = r.array
           /\ buffer' = r.buffer
           /\ kd_tree' = r.kd_tree
           /\ last_op' = [Op("consolidate") EXCEPT !.early = r.early]
    /\ pc' = NextPc(pc, callbacks)
    /\ hist' = HistAt(pc', hist)
    /\ UNCHANGED <<time, last_id, callbacks, created>>
    /\ UNCHANGED <<time_step, nonSimVars>>

\* Faulty variant: the pending particles are taken into the store before
\* the integration.
Integrate_Consolidated ==
    /\ pc = "solve"
    /\ LET r == consolidate(array, buffer, kd_tree)
       IN  /\ array' = [r.array EXCEPT
                           !.array = [k \in 1..Len(r.array.array) |->
                                         IF k <= r.array.size
                                         THEN Solve(r.array.array[k], time_step)
                                         ELSE r.array.array[k]]]
           /\ buffer' = r.buffer
    /\ pc' = NextPc(pc, callbacks)
    /\ hist' = HistAt(pc', [hist EXCEPT
                                !.solved = {array.array[k].id : k \in 1..array.size}])
    /\ last_op' = Op("solve")
    /\ UNCHANGED <<time, last_id, kd_tree, callbacks, created>>
    /\ UNCHANGED <<time_step, nonSimVars>>

\* step(): every particle of the store is integrated, its force zeroed.
Integrate ==
    /\ pc = "solve"
    /\ array' = [array EXCEPT
                    !.array = [k \in 1..Len(array.array) |->
                                  IF k <= array.size
                                  THEN Solve(array.array[k], time_step)
                                  ELSE array.array[k]]]
    /\ pc' = NextPc(pc, callbacks)
    /\ hist' = HistAt(pc', [hist EXCEPT
                                !.solved = {array.array[k].id : k \in 1..array.size}])
    /\ last_op' = Op("solve")
    /\ UNCHANGED <<time, last_id, buffer, kd_tree, callbacks, created>>
    /\ UNCHANGED <<time_step, nonSimVars>>

Next ==
    \/ \E kw \in KwargsSet : AddParticle(kw)
    \/ \E count \in 0..MaxBulk : AddParticles(count)
    \/ \E k \in 1..(MaxId + 1) : KillInStore(k)
    \/ \E ref \in BufferRefs(buffer), k \in 0..(MaxBulk - 1) : KillInBuffer(ref, k)
    \/ Consolidate
    \/ \E id \in (-1)..(MaxId + 1) : GetParticle(id)
    \/ GetNeighbourParticles
    \/ StepBegin
    \/ CallbackReturn
    \/ CallbackConsolidate
    \/ Integrate

Spec == Init /\ [][Next]_vars

\* ------------------------------------------- claims on ParticleSimulation
\* sim.particles, and the particles waiting in the buffer, in insertion order
Store == DA_data(array)

Pending == Flatten(OB_chunks(buffer))

IsAlive(p) == p.alive

StrictlyAscending(ids) == \A k \in 1..(Len(ids) - 1) : ids[k] < ids[k + 1]

InSeq(x, seq) == \E k \in 1..Len(seq) : seq[k] = x

\* C1: right after every consolidate the store is, in order, exactly the
\* particles of the previous store and of the pending buffer whose alive flag
\* was set when consolidate was called, and its ids are strictly ascending.
C1_StoreIsAliveSet ==
    [][last_op'.name = "consolidate" =>
          /\ DA_data(array') = SelectSeq(Store \o Pending, IsAlive)
          /\ StrictlyAscending(Ids(DA_data(array')))]_vars

\* C1 witness: a consolidate has dropped a particle and kept a later one.
C1_Witness ==
    /\ last_op.name = "consolidate" /\ ~last_op.early
    /\ Len(Store) >= 1
    /\ Store[1].id > 0

\* C2: add_particle gives id last_particle_id + 1, add_particles(n), n >= 1,
\* gives last_particle_id + 1 .. last_particle_id + n in order;
\* last_particle_id never decreases and no id is ever given twice.
C2_ConsecutiveIds ==
    [][/\ last_id' >= last_id
       /\ \A k \in 1..Len(created'), n \in 1..Len(created') :
              k # n => created'[k] # created'[n]
       /\ last_op'.name = "add_particle" =>
              /\ created' = Append(created, last_id + 1)
              /\ last_id' = last_id + 1
       /\ \A count \in 1..MaxBulk : AddParticles(count) =>
              /\ created' = created \o [k \in 1..count |-> last_id + k]
              /\ Ids(SubSeq(Pending', Len(Pending) + 1, Len(Pending'))) =
                     [k \in 1..count |-> last_id + k]
              /\ last_id' = last_id + count]_vars

\* C2 witness: particle 0 was removed by a consolidate and the next particle
\* got id 1.
C2_Witness ==
    /\ last_op.name \in {"add_particle", "add_particles"}
    /\ created = <<0, 1>>
    /\ Store = <<>>
    /\ Ids(Pending) = <<1>>

\* C3: no call but consolidate changes the store's length or ids; after
\* add_particle, add_particles or alive = False the new particles are not in
\* the store, get_particle finds none of the pending particles, and every
\* particle of the store, the not-alive ones included, is found by it.
C3_StoreUntouched ==
    [][/\ last_op'.name # "consolidate" => Ids(DA_data(array')) = Ids(Store)
       /\ last_op'.name \in {"add_particle", "add_particles", "kill"} =>
              /\ \A k \in (Len(created) + 1)..Len(created') :
                     ~InSeq(created'[k], Ids(DA_data(array')))
              /\ \A k \in 1..Len(Pending') :
                     ~get_particle(array', Pending'[k].id).ok
              /\ \A k \in 1..Len(Store) :
                     get_particle(array', Store[k].id) =
                         [ok |-> TRUE, idx |-> k - 1]]_vars

\* C3 witness: a particle of the store has just been marked not-alive, with
\* another particle pending.
C3_Witness ==
    /\ last_op.name = "kill"
    /\ \E k \in 1..Len(Store) : ~Store[k].alive
    /\ Len(Pending) >= 1

\* C4: get_particle(id) succeeds, with a particle of that id, exactly when
\* the store holds a particle with that id; otherwise it raises; either way
\* the simulation is left as it was.
C4_GetParticle ==
    [][last_op'.name = "get_particle" =>
          /\ ~last_op'.error <=> InSeq(last_op'.id, Ids(Store))
          /\ ~last_op'.error => Store[last_op'.idx + 1].id = last_op'.id
          /\ UNCHANGED <<time, last_id, array, buffer, kd_tree, pc>>]_vars

\* C4 witness: get_particle has raised for the id of a pending particle,
\* while a removed id and a never assigned one are absent too and the store
\* is not empty.
C4_Witness ==
    /\ last_op.name = "get_particle" /\ last_op.error
    /\ InSeq(last_op.id, Ids(Pending))
    /\ Len(created) > Len(Store) + Len(Pending)

\* C4 witness, second half: get_particle has found a particle that is not
\* the first of the store.
C4_WitnessFound ==
    /\ last_op.name = "get_particle" /\ ~last_op.error /\ last_op.idx >= 1

\* C5: an id given to add_particle is discarded: the particle gets
\* last_particle_id + 1, which advances by exactly one.
C5_GivenIdDiscarded ==
    [][(last_op'.name = "add_particle" /\ last_op'.given) =>
          /\ last_id' = last_id + 1
          /\ Len(Pending') = Len(Pending) + 1
          /\ Pending'[Len(Pending')].id = last_id + 1]_vars

\* C5 witness: add_particle was given an id that differs from the one the
\* particle got.
C5_Witness ==
    /\ last_op.name = "add_particle" /\ last_op.given
    /\ last_op.id # last_id
    /\ Pending[Len(Pending)].id = last_id

\* C6: consolidate with an empty pending buffer and no not-alive particle in
\* the store leaves the store as it is.
C6_Idempotent ==
    [][(/\ last_op'.name = "consolidate"
        /\ OB_len(buffer, BucketCapacity) = 0
        /\ \A k \in 1..Len(Store) : Store[k].alive) =>
          /\ DA_data(array') = Store
          /\ DA_capacity(array') = DA_capacity(array)]_vars

\* C6 witness: consolidate was called with nothing to do on a store that holds
\* particles.
C6_Witness ==
    /\ last_op.name = "consolidate" /\ last_op.early
    /\ Len(Store) >= 2

\* C7: a neighbour query is answered from an index built on the positions the
\* store has at the time of the query.
C7_IndexIsCurrent ==
    (last_op.name = "get_neighbour_particles" /\ ~last_op.error) =>
        kd_tree.points = Positions(Store)

\* C8: step() advances the time, runs presolve then consolidate, integrates
\* every particle of the store and zeroes its force, runs postsolve then
\* consolidate; so what presolve added is integrated in the same step, what
\* presolve marked not-alive is gone before the integration, and what
\* postsolve added is in the store when step returns, not integrated.
C8_StepOrder ==
    [][/\ (pc = "idle" /\ last_op'.name = "step") =>
              /\ time' = time + TimeStep
              /\ pc' = IF callbacks.presolve THEN "presolve" ELSE "solve"
              /\ array' = array /\ buffer' = buffer
       /\ (pc = "presolve" /\ pc' # pc) => pc' = "pre_consolidate"
       /\ pc = "pre_consolidate" =>
              /\ last_op'.name = "consolidate" /\ pc' = "solve"
              /\ time' = time
       /\ pc = "solve" =>
              /\ pc' = IF callbacks.postsolve THEN "postsolve" ELSE "idle"
              /\ callbacks.presolve =>
                     /\ \A id \in hist.pre \ hist.killed_pre : InSeq(id, Ids(Store))
                     /\ \A id \in hist.killed_pre : ~InSeq(id, Ids(Store))
              /\ Ids(DA_data(array')) = Ids(Store)
              /\ \A k \in 1..Len(Store) : \A c \in 1..2 :
                     /\ DA_data(array')[k].force[c] = 0
                     /\ DA_data(array')[k].velocity[c] =
                            Store[k].velocity[c]
                            + (Store[k].force[c] * TimeStep) \div Store[k].mass
                     /\ DA_data(array')[k].position[c] =
                            Store[k].position[c]
                            + DA_data(array')[k].velocity[c] * TimeStep
              /\ time' = time
       /\ (pc = "postsolve" /\ pc' # pc) => pc' = "post_consolidate"
       /\ pc = "post_consolidate" =>
              /\ last_op'.name = "consolidate" /\ pc' = "idle"
              /\ \A k \in 1..Len(Pending) :
                     (Pending[k].id \in hist.post /\ Pending[k].alive) =>
                         /\ InSeq(Pending[k], DA_data(array'))
                         /\ Pending[k].id \notin hist.solved
                         /\ Pending[k].velocity = <<0, 0>>]_vars

\* C8 witness: a step in which presolve added a particle that was then
\* integrated while carrying a force, and postsolve added another.
C8_Witness ==
    /\ pc = "post_consolidate"
    /\ hist.pre \cap hist.solved # {}
    /\ \E k \in 1..Len(Store) : Store[k].id \in hist.pre /\ Store[k].velocity # <<0, 0>>
    /\ \E k \in 1..Len(Pending) : Pending[k].id \in hist.post /\ Pending[k].alive

\* C8 witness, second half: a particle marked not-alive in presolve is gone
\* when the integration starts.
C8_WitnessKilled ==
    /\ pc = "solve"
    /\ hist.killed_pre # {}

\* ------------------------------------------- the stand-alone OrderedBuffer
\* Elements stored by the stand-alone buffer.
Elems == {[val |-> 0], [val |-> 1]}

\* The arrays extend is called with: every length from 0 to MaxExtend.
ElemSeqs == UNION {[1..n -> Elems] : n \in 0..MaxExtend}

InitOB == SimIdle /\ OBIdle /\ DAIdle /\ KDIdle /\ NewIdle /\ AppIdle

\* One reference handed out: where it points, and the index in ob_inserted
\* of the first element it covers.
RefEntry(ref, at) == [ref |-> ref, at |-> at, written |-> FALSE]

OBAppend(e) ==
    /\ Len(ob_inserted) + 1 <= MaxElems
    /\ ob' = OB_append(ob, e, BufCapacity)
    /\ ob_refs' = ob_refs \cup
                  {RefEntry(PushRef(ob, 1, BufCapacity), Len(ob_inserted) + 1)}
    /\ ob_inserted' = Append(ob_inserted, e)
    /\ ob_op' = [name |-> "append", size |-> 1,
                 full |-> (ob.pos[1] = Len(ob.buckets)),
                 nbuckets |-> Len(ob.buckets)]
    /\ UNCHANGED nonObVars

OBExtend(data) ==
    /\ Len(ob_inserted) + Len(data) <= MaxElems
    /\ ob' = OB_extend(ob, data, BufCapacity)
    /\ ob_refs' = IF Len(data) < 1 THEN ob_refs
                  ELSE ob_refs \cup
                       {RefEntry(PushRef(ob, Len(data), BufCapacity),
                                 Len(ob_inserted) + 1)}
    /\ ob_inserted' = ob_inserted \o data
    /\ ob_op' = [name |-> "extend", size |-> Len(data),
                 full |-> (ob.pos[1] = Len(ob.buckets)),
                 nbuckets |-> Len(ob.buckets)]
    /\ UNCHANGED nonObVars

OBClear ==
    /\ ob' = OB_clear(ob)
    /\ ob_refs' = {}
    /\ ob_inserted' = <<>>
    /\ ob_op' = [name |-> "clear", size |-> 0, full |-> FALSE,
                 nbuckets |-> Len(ob.buckets)]
    /\ UNCHANGED nonObVars

\* The holder of a reference changes the element in place.
OBWrite(r, k, e) ==
    /\ r \in ob_refs
    /\ k \in 0..(r.ref.size - 1)
    /\ ob' = WriteRef(ob, r.ref, k, e)
    /\ ob_refs' = (ob_refs \ {r}) \cup {[r EXCEPT !.written = TRUE]}
    /\ ob_inserted' = [ob_inserted EXCEPT ![r.at + k] = e]
    /\ ob_op' = [name |-> "write", size |-> 1, full |-> FALSE,
                 nbuckets |-> Len(ob.buckets)]
    /\ UNCHANGED nonObVars

NextOB ==
    \/ \E e \in Elems : OBAppend(e)
    \/ \E data \in ElemSeqs : OBExtend(data)
    \/ OBClear
    \/ \E r \in ob_refs, k \in 0..(MaxExtend - 1), e \in Elems : OBWrite(r, k, e)

SpecOB == InitOB /\ [][NextOB]_vars

\* C9: every slot handed out by append or extend since the last clear still
\* holds the value inserted there or last written through its reference, and
\* an append or extend never removes or replaces an existing bucket: one that
\* finds every bucket full adds a new bucket.
RefsStable ==
    \A r \in ob_refs : \A k \in 0..(r.ref.size - 1) :
        ReadRef(ob, r.ref, k) = ob_inserted[r.at + k]

C9_AddressStability ==
    /\ RefsStable
    /\ Len(ob.buckets) >= ob_op.nbuckets
    /\ (ob_op.name = "append" /\ ob_op.full)
           => Len(ob.buckets) = ob_op.nbuckets + 1

\* C9 witness: a slot of the first bucket was handed out and written through
\* its reference, and a later append found the bucket full and opened another.
C9_Witness ==
    /\ ob_op.name = "append" /\ ob_op.full /\ Len(ob.buckets) >= 2
    /\ \E r \in ob_refs : r.written /\ r.ref.kind = "bucket" /\ r.ref.i = 0
    /\ \E r \in ob_refs : r.ref.kind = "bunch"

\* C10: the chunks, concatenated, are the elements inserted since the last
\* clear in insertion order; no chunk is empty; len counts those elements;
\* after clear len is 0 and there is no chunk.
C10_ChunksAreInserted ==
    /\ Flatten(OB_chunks(ob)) = ob_inserted
    /\ \A c \in 1..Len(OB_chunks(ob)) : Len(OB_chunks(ob)[c]) > 0
    /\ OB_len(ob, BufCapacity) = Len(ob_inserted)
    /\ ob_op.name = "clear" => (OB_len(ob, BufCapacity) = 0 /\ OB_chunks(ob) = <<>>)

\* C10 witness: a bunch larger than a bucket sits between two bucket slices,
\* after an earlier clear left used buckets behind.
C10_Witness ==
    /\ Len(ob_inserted) = MaxElems
    /\ Len(OB_chunks(ob)) >= 3
    /\ \E k \in 1..Len(ob.bunchs) : Len(ob.bunchs[k].data) > BufCapacity
    /\ Len(ob.buckets) > ob.pos[1] + 1

\* C11: an extend of k >= 1 elements whose k is at most bucket_capacity minus
\* the write offset is written into the current bucket at the write position
\* and records no bunch; any other extend appends one bunch holding exactly
\* the k elements at the unchanged write position and touches no bucket, so
\* that the next insert that fits is written at that same position.
LastInserted(k) ==
    SubSeq(ob_inserted', Len(ob_inserted') - k + 1, Len(ob_inserted'))

C11_ExtendFitsOrBunch ==
    [][(ob_op'.name = "extend" /\ ob_op'.size >= 1) =>
        LET k == ob_op'.size
            i == ob.pos[1]
            j == ob.pos[2]
        IN  IF k <= BufCapacity - j
            THEN /\ ob'.bunchs = ob.bunchs
                 /\ Len(ob'.buckets) > i
                 /\ SubSeq(ob'.buckets[i + 1], j + 1, j + k) = LastInserted(k)
                 /\ ob'.pos # ob.pos
            ELSE /\ ob'.bunchs = Append(ob.bunchs, [position |-> ob.pos,
                                                    data |-> LastInserted(k)])
                 /\ Len(LastInserted(k)) = k
                 /\ ob'.pos = ob.pos
                 /\ ob'.buckets = ob.buckets]_vars

\* C11 witness: an extend that did not fit was recorded as a bunch in the
\* middle of a bucket, and the extend just made was written into that bucket
\* at the position the bunch was recorded at.
C11_Witness ==
    /\ ob_op.name = "extend" /\ ob_op.size >= 1
    /\ \E r \in ob_refs, s \in ob_refs :
          /\ r.ref.kind = "bunch" /\ s.ref.kind = "bucket"
          /\ s.at = Len(ob_inserted) - ob_op.size + 1
          /\ r.at < s.at
          /\ ob.bunchs[r.ref.i + 1].position = <<s.ref.i, s.ref.j>>
          /\ s.ref.j > 0

\* ------------------------------------------------ stand-alone DynamicArray
\* The arrays DynamicArray.extend is called with.
DAElemSeqs == UNION {[1..n -> Elems] : n \in 0..DAMaxExtend}

\* The sizes grow and resize are called with, one of them negative.
DARequests == (-1)..DAMaxSize

InitDA ==
    /\ SimIdle
    /\ OBIdle
    /\ KDIdle
    /\ NewIdle
    /\ AppIdle
    /\ \E capacity \in 0..DAInitCapacity : DANew(capacity)

DACall(name, requested, copy) ==
    [name |-> name, requested |-> requested, copy |-> copy, error |-> FALSE,
     len |-> DA_len(da), capacity |-> DA_capacity(da)]

DAAppend(e) ==
    /\ da.size >= 0
    /\ da.size + 1 <= DAMaxSize
    /\ da' = DA_append(da, e)
    /\ da_list' = Append(da_list, e)
    /\ da_op' = DACall("append", da.size + 1, TRUE)
    /\ UNCHANGED nonDaVars

DAExtend(data) ==
    /\ da.size >= 0
    /\ da.size + Len(data) <= DAMaxSize
    /\ da' = DA_extend(da, data)
    /\ da_list' = da_list \o data
    /\ da_op' = DACall("extend", da.size + Len(data), TRUE)
    /\ UNCHANGED nonDaVars

\* grow never fails: a request that is not above the capacity, a negative one
\* included, returns at once.  A preserving grow leaves the list alone; after
\* a non-preserving one the list is whatever the array now shows.
DAGrow(requested, copy) ==
    /\ requested > DA_capacity(da) => da.size >= 0
    /\ da' = DA_grow(da, requested, copy)
    /\ da_list' = IF copy THEN da_list ELSE DA_data(da')
    /\ da_op' = DACall("grow", requested, copy)
    /\ UNCHANGED nonDaVars

\* resize never fails either: it grows, then stores the requested size, a
\* negative one included.  On the list, a preserving resize to a size that is
\* not negative truncates, or keeps the elements and lengthens the list with
\* whatever the storage holds; any other resize leaves what the array shows.
DAResize(requested, copy) ==
    /\ requested > DA_capacity(da) => da.size >= 0
    /\ da' = DA_resize(da, requested, copy)
    /\ da_list' =
          IF copy /\ requested >= 0
          THEN IF requested <= Len(da_list) THEN Take(da_list, requested)
               ELSE da_list \o SubSeq(DA_data(da'), Len(da_list) + 1, requested)
          ELSE DA_data(da')
    /\ da_op' = DACall("resize", requested, copy)
    /\ UNCHANGED nonDaVars

DAClear ==
    /\ da' = DA_clear(da)
    /\ da_list' = <<>>
    /\ da_op' = DACall("clear", 0, TRUE)
    /\ UNCHANGED nonDaVars

NextDA ==
    \/ \E e \in Elems : DAAppend(e)
    \/ \E data \in DAElemSeqs : DAExtend(data)
    \/ \E requested \in DARequests, copy \in BOOLEAN : DAGrow(requested, copy)
    \/ \E requested \in DARequests, copy \in BOOLEAN : DAResize(requested, copy)
    \/ DAClear

SpecDA == InitDA /\ [][NextDA]_vars

\* C12: after grow(requested) the capacity is the one before the call when
\* requested is not above it, and otherwise the largest of requested, the
\* capacity before times 3/2 rounded down, and 4: at least requested and at
\* least the rounded product, also when the capacity before was 0.
C12_GrowthLaw ==
    da_op.name = "grow" =>
        LET before == da_op.capacity
            after == DA_capacity(da)
            scaled == (before * 3) \div 2
        IN  IF da_op.requested <= before
            THEN after = before
            ELSE /\ after \in {da_op.requested, scaled, 4}
                 /\ after >= da_op.requested
                 /\ after >= scaled
                 /\ after >= 4

\* C12 witness: a grow from a capacity that is not 0 to one above the
\* request: the growth factor decided the new capacity.
C12_Witness ==
    /\ da_op.name = "grow"
    /\ da_op.capacity > 0
    /\ da_op.requested > da_op.capacity
    /\ DA_capacity(da) > da_op.requested
    /\ DA_capacity(da) > 4

\* C12, second witness: a grow from capacity 0.
C12_WitnessFromZero ==
    /\ da_op.name = "grow"
    /\ da_op.capacity = 0
    /\ da_op.requested > 0
    /\ DA_capacity(da) = 4

\* C13: the data of the array is the plain list: append and extend add at
\* the end in order, clear empties, resize(n) keeps the first n elements or
\* keeps them all as the first entries of a longer list, and a growth of the
\* capacity changes no element.
C13_PlainSequence ==
    /\ DA_data(da) = da_list
    /\ da.size >= 0 => DA_len(da) = Len(da_list)

\* C13 witness: an append or extend on an array holding both element values
\* had to reallocate the storage.
C13_Witness ==
    /\ da_op.name \in {"append", "extend"}
    /\ da_op.len >= 2
    /\ DA_capacity(da) > da_op.capacity
    /\ da_op.capacity > 0
    /\ \E k \in 1..da_op.len : da_list[k] # da_list[1]

\* C14: a grow or a resize called with a negative size fails with an error
\* and leaves the length and the capacity as they were.
C14_NegativeRejected ==
    (da_op.name \in {"grow", "resize"} /\ da_op.requested < 0) =>
        /\ da_op.error
        /\ DA_len(da) = da_op.len
        /\ DA_capacity(da) = da_op.capacity

\* ------------------------------------------------------ stand-alone KDTree
\* The points the trees are built over, and the points searched from.
KDDataPoints == {<<0, 0>>, <<0, 1>>, <<1, 0>>, <<2, 0>>, <<2, 1>>}

KDQueryPoints == {<<0, 0>>, <<1, 0>>, <<1, 2>>, <<3, 1>>}

KDDataSets == UNION {[1..n -> KDDataPoints] : n \in 1..KDMaxPoints}

KDRadii == {None} \cup {Some(r) : r \in 0..KDMaxRadius}

InitKD ==
    /\ SimIdle
    /\ OBIdle
    /\ DAIdle
    /\ NewIdle
    /\ AppIdle
    /\ \E data \in KDDataSets, bucket_size \in 1..KDMaxBucket :
           kdt = KD_new(data, bucket_size)
    /\ kdt_op = KDOp("init")

\* search, on a tree that was built.  Unsorted results are asked of the
\* all-within-radius path only.  A search reads the tree and changes nothing
\* of it, so that the searches made on a tree before this one do not matter:
\* each is made on the tree as it was built.
KDSearch(point, count, radius, sort) ==
    /\ kdt.status = "built"
    /\ kdt_op.name = "init"
    /\ LET found == KD_search(kdt, point, count, radius, sort)
       IN  kdt_op' = [name |-> "search", point |-> point, count |-> count,
                      radius |-> radius, sort |-> sort,
                      path |-> found.path, result |-> found.result]
    /\ UNCHANGED kdt
    /\ UNCHANGED nonKdVars

\* count below the number of points
KDSearchNearests ==
    \E point \in KDQueryPoints, k \in 1..(Len(kdt.data) - 1),
       radius \in KDRadii :
        KDSearch(point, Some(k), radius, TRUE)

\* count None, or not below the number of points
KDSearchAll ==
    \E point \in KDQueryPoints, radius \in KDRadii :
        \/ \E sort \in BOOLEAN : KDSearch(point, None, radius, sort)
        \/ \E extra \in 0..1 :
               KDSearch(point, Some(Len(kdt.data) + extra), radius, TRUE)

\* a count below 1 or a negative radius
KDSearchNothing ==
    \E point \in KDQueryPoints, sort \in BOOLEAN :
        \/ \E count \in {Some(-1), Some(0)}, radius \in {None, Some(-1), Some(1)} :
               KDSearch(point, count, radius, sort)
        \/ \E count \in {None, Some(1), Some(Len(kdt.data))} :
               KDSearch(point, count, Some(-1), sort)

NextKD ==
    \/ KDSearchNearests
    \/ KDSearchAll
    \/ KDSearchNothing

SpecKD == InitKD /\ [][NextKD]_vars

\* Every point of the tree with its squared distance to the point searched
\* from, computed one by one.
AllNeighbours(point) ==
    {Neighbour(SqDist(point, kdt.data[k]), k - 1) : k \in 1..Len(kdt.data)}

Distances(neighbours) ==
    [k \in 1..Len(neighbours) |-> neighbours[k].squared_distance]

Ascending(ds) == \A k \in 1..(Len(ds) - 1) : ds[k] <= ds[k + 1]

DistinctIndices(neighbours) ==
    \A a, b \in 1..Len(neighbours) :
        a # b => neighbours[a].index # neighbours[b].index

IsNearestsSearch ==
    /\ kdt_op.name = "search"
    /\ kdt_op.path = "nearests"
    /\ ~kdt_op.radius.some

\* No two points of the tree are as far from the point searched from.
NoTie(point) ==
    \A a, b \in AllNeighbours(point) :
        a # b => a.squared_distance # b.squared_distance

\* C15 as stated: a search for the k < n nearest points without radius
\* returns k entries, distinct points with their true squared distances in
\* ascending order, which are the first k entries of the sorted search for
\* all n points.
C15_NearestsAsStated ==
    IsNearestsSearch =>
        /\ Len(kdt_op.result) = kdt_op.count.v
        /\ Range(kdt_op.result) \subseteq AllNeighbours(kdt_op.point)
        /\ DistinctIndices(kdt_op.result)
        /\ Ascending(Distances(kdt_op.result))
        /\ kdt_op.result =
               Take(KD_search(kdt, kdt_op.point, Some(Len(kdt.data)), None,
                              TRUE).result,
                    kdt_op.count.v)

\* C15 amended: a search for the k < n nearest points without radius
\* returns k entries, distinct points with their true squared distances in
\* ascending order; these distances are the k smallest among all points; and
\* the entries are the first k of the sorted search for all n points when no
\* two points are as far from the point searched from.
C15_Nearests ==
    IsNearestsSearch =>
        LET k == kdt_op.count.v
            all == SortNeighbours(AllNeighbours(kdt_op.point))
        IN  /\ Len(kdt_op.result) = k
            /\ Range(kdt_op.result) \subseteq AllNeighbours(kdt_op.point)
            /\ DistinctIndices(kdt_op.result)
            /\ Ascending(Distances(kdt_op.result))
            /\ Distances(kdt_op.result) = Take(Distances(all), k)
            /\ NoTie(kdt_op.point) =>
                   kdt_op.result =
                       Take(KD_search(kdt, kdt_op.point, Some(Len(kdt.data)),
                                      None, TRUE).result, k)

\* C15 witness: two of three points in a tree of five nodes were found, the
\* farthest one was left out, and no two points are as far.
C15_Witness ==
    /\ IsNearestsSearch
    /\ Len(kdt.nodes) = 5
    /\ kdt_op.count.v = 2
    /\ Len(kdt_op.result) = 2
    /\ NoTie(kdt_op.point)
    /\ kdt_op.result[1].index > kdt_op.result[2].index

\* C16: a sorted search with count None or at least n and a radius r (or
\* None) returns exactly the points whose squared distance is at most r
\* squared, each once with its true squared distance, in ascending order.
C16_AllWithinRadius ==
    (kdt_op.name = "search" /\ kdt_op.path = "all" /\ kdt_op.sort) =>
        LET within == {a \in AllNeighbours(kdt_op.point) :
                          ~kdt_op.radius.some
                          \/ a.squared_distance <= Sq(kdt_op.radius.v)}
        IN  /\ Range(kdt_op.result) = within
            /\ Len(kdt_op.result) = Cardinality(within)
            /\ Ascending(Distances(kdt_op.result))

\* C16 witness: the root was not wholly within the radius, its left child,
\* which is no leaf, was, and a point of the other child was left out.
C16_Witness ==
    /\ kdt_op.name = "search" /\ kdt_op.path = "all" /\ kdt_op.sort
    /\ kdt_op.radius.some
    /\ Len(kdt.nodes) >= 5
    /\ pt_to_node_far_dist(kdt_op.point, kdt.nodes[1].lower_bounds,
                           kdt.nodes[1].upper_bounds) > Sq(kdt_op.radius.v)
    /\ kdt.nodes[2].size > 1
    /\ pt_to_node_far_dist(kdt_op.point, kdt.nodes[2].lower_bounds,
                           kdt.nodes[2].upper_bounds) <= Sq(kdt_op.radius.v)
    /\ Len(kdt_op.result) = Len(kdt.data) - 1

\* C17: a search with a count below 1 or a negative radius returns nothing
\* and traverses nothing; a search with count None and radius None returns
\* every point of the tree.
C17_EmptyAndNone ==
    kdt_op.name = "search" =>
        /\ ((kdt_op.count.some /\ kdt_op.count.v <= 0)
              \/ (kdt_op.radius.some /\ kdt_op.radius.v < 0))
               => (kdt_op.path = "none" /\ kdt_op.result = <<>>)
        /\ (~kdt_op.count.some /\ ~kdt_op.radius.some)
               => /\ kdt_op.path = "all"
                  /\ Len(kdt_op.result) = Len(kdt.data)
                  /\ Range(kdt_op.result) = AllNeighbours(kdt_op.point)

\* C17 witness: a search with count 0 and no radius on a tree of several
\* nodes returned nothing.
C17_Witness ==
    /\ kdt_op.name = "search"
    /\ kdt_op.count = Some(0)
    /\ ~kdt_op.radius.some
    /\ Len(kdt.nodes) >= 3
    /\ kdt_op.result = <<>>

\* C17, second witness: an unsorted search with count None and radius None
\* returned the three points of a tree.
C17_WitnessAll ==
    /\ kdt_op.name = "search"
    /\ kdt_op.count = None /\ kdt_op.radius = None /\ ~kdt_op.sort
    /\ Len(kdt_op.result) = 3

\* ------------------------------------------------------------ constructors
InitNew ==
    /\ SimIdle
    /\ OBIdle
    /\ DAIdle
    /\ KDIdle
    /\ NewIdle
    /\ AppIdle

\* A constructor call makes an object of its own, whatever was made before:
\* each call is made once, from the state where nothing was made yet.
NewOrderedBuffer(bucket_capacity) ==
    /\ made.class = "none"
    /\ LET object == OB_init(bucket_capacity)
       IN  made' = Made("OrderedBuffer", bucket_capacity,
                        object.status = "ValueError",
                        IF object.status = "ValueError" THEN NoObject
                        ELSE object)
    /\ UNCHANGED nonNewVars

NewKDTree(data, bucket_size) ==
    /\ made.class = "none"
    /\ LET object == KD_new(data, bucket_size)
       IN  made' = Made("KDTree", bucket_size,
                        object.status = "ValueError",
                        IF object.status = "ValueError" THEN NoObject
                        ELSE object)
    /\ UNCHANGED nonNewVars

NextNew ==
    \/ \E bucket_capacity \in (-1)..NewMaxCapacity :
           NewOrderedBuffer(bucket_capacity)
    \/ \E data \in KDDataSets, bucket_size \in (-1)..KDMaxBucket :
           NewKDTree(data, bucket_size)

SpecNew == InitNew /\ [][NextNew]_vars

\* C18: an OrderedBuffer made with a bucket capacity below 1, and a KDTree
\* made with a bucket size below 1, fail with an error and nothing is built;
\* no value from 1 on is turned away.
C18_MinimumOfOne ==
    made.class \in {"OrderedBuffer", "KDTree"} =>
        /\ made.arg < 1 => (made.error /\ made.object = NoObject)
        /\ made.arg >= 1 => (~made.error /\ made.object # NoObject)

\* C18 witness: a bucket capacity of 0 was turned away.
C18_Witness ==
    /\ made.class = "OrderedBuffer"
    /\ made.arg = 0
    /\ made.error

\* C18, more witnesses: a bucket size of 0 was turned away; a bucket size of
\* 1 and a bucket capacity of 1 were not.
C18_WitnessKDTree ==
    /\ made.class = "KDTree"
    /\ made.arg = 0
    /\ made.error

C18_WitnessAccepted ==
    /\ made.class = "KDTree"
    /\ made.arg = 1
    /\ made.object.status = "built"
    /\ Len(made.object.nodes) = 5

\* ------------------------------------------------- time_step of __init__
\* The simulation made with any time_step from -1 to TimeStep.
TimeSteps == (-1)..TimeStep

InitAnyStep ==
    /\ \E cbs \in CallbackSets, step \in TimeSteps : SimMake(cbs, step)
    /\ OBIdle
    /\ DAIdle
    /\ KDIdle
    /\ NewIdle
    /\ AppIdle

SpecAnyStep == InitAnyStep /\ [][Next]_vars

\* C19: no simulation is made with a time_step that is not positive (making
\* one fails), so that the time of a simulation is larger after each step().
C19_TimeStepRejected ==
    [][(time_step > 0) /\ (StepBegin => time' > time)]_vars

\* ------------------------------------------------------------- application
\* _run: the GUI process, the particle simulation process and the main
\* process, one action per message sent or received.  What depends on the
\* user or on the clock (quitting, events with callbacks, the accumulator
\* reaching the time step) is chosen freely.
InitApp ==
    /\ \E step \in TimeSteps :
          /\ SimMake([initialize |-> FALSE, presolve |-> FALSE,
                      postsolve |-> FALSE], step)
          /\ AppMake(step)
    /\ OBIdle
    /\ DAIdle
    /\ KDIdle
    /\ NewIdle

\* _gui_process, top of the loop: a STOP from the main process ends it.
GuiControl ==
    /\ gui.pc = "control"
    /\ IF chan.downwards # <<>>
       THEN /\ chan' = [chan EXCEPT !.downwards = Tail(@)]
            /\ gui' = [gui EXCEPT !.pc = "done"]
            /\ stats' = [stats EXCEPT !.stops_received.gui = @ + 1]
       ELSE /\ gui' = [gui EXCEPT !.pc = "events"]
            /\ UNCHANGED <<chan, stats>>
    /\ UNCHANGED <<psim, main>>
    /\ UNCHANGED nonAppVars

\* poll_events: the user quits, or the events come with callbacks for the
\* simulation, or with none.
GuiQuit ==
    /\ gui.pc = "events"
    /\ chan' = [chan EXCEPT !.upwards = Append(@, Message("QUIT"))]
    /\ gui' = [gui EXCEPT !.pc = "done"]
    /\ stats' = [stats EXCEPT !.quits_sent = @ + 1]
    /\ UNCHANGED <<psim, main>>
    /\ UNCHANGED nonAppVars

\* poll_events runs the callbacks of the user, which may raise.
\* _process_wrapper catches what derives from Exception; anything else ends
\* the process with its finally clauses only.
GuiFault(kind) ==
    /\ gui.pc = "events"
    /\ gui' = [gui EXCEPT !.fault = kind,
                          !.pc = IF kind = "Exception" THEN "raised"
                                 ELSE "done"]
    /\ UNCHANGED <<psim, main, chan, stats>>
    /\ UNCHANGED nonAppVars

\* The run is followed up to AppMaxUpdates requests: past them the user
\* quits or a callback raises.
GuiEvents(with_callbacks) ==
    /\ gui.pc = "events"
    /\ ~(/\ gui.next_state = None
         /\ gui.request_sim_updates
         /\ stats.requests_sent >= AppMaxUpdates)
    /\ with_callbacks => stats.callbacks_sent < AppMaxCallbacks
    /\ gui' = [gui EXCEPT !.pc = IF with_callbacks THEN "callbacks"
                                 ELSE "request"]
    /\ UNCHANGED <<psim, main, chan, stats>>
    /\ UNCHANGED nonAppVars

\* if on_event_data.callbacks.particle_simulation: they are sent, which
\* waits for room in the pipe.
GuiSendCallbacks ==
    /\ gui.pc = "callbacks"
    /\ Len(chan.gui_to_psim) < PipeCapacity
    /\ chan' = [chan EXCEPT !.gui_to_psim =
                   Append(@, [Message("RUN_CALLBACKS") EXCEPT
                                 !.callbacks = stats.callbacks_sent + 1])]
    /\ stats' = [stats EXCEPT !.callbacks_sent = @ + 1]
    /\ gui' = [gui EXCEPT !.pc = "request"]
    /\ UNCHANGED <<psim, main>>
    /\ UNCHANGED nonAppVars

\* Faulty variant: request_sim_updates is left set once the request is sent.
GuiRequest_KeepRequesting ==
    /\ gui.pc = "request"
    /\ IF gui.next_state = None
       THEN IF gui.request_sim_updates
            THEN /\ stats.requests_sent < AppMaxUpdates
                 /\ Len(chan.gui_to_psim) < PipeCapacity
                 /\ chan' = [chan EXCEPT !.gui_to_psim =
                                Append(@, Message("REQUEST_SIM_UPDATE"))]
                 /\ stats' = [stats EXCEPT !.requests_sent = @ + 1]
                 /\ gui' = [gui EXCEPT !.pc = "receive"]
            ELSE /\ gui' = [gui EXCEPT !.pc = "receive"]
                 /\ UNCHANGED <<chan, stats>>
       ELSE /\ gui' = [gui EXCEPT !.pc = "advance"]
            /\ UNCHANGED <<chan, stats>>
    /\ UNCHANGED <<psim, main>>
    /\ UNCHANGED nonAppVars

\* if next_state is None: if request_sim_updates: send the request
GuiRequest ==
    /\ gui.pc = "request"
    /\ IF gui.next_state = None
       THEN IF gui.request_sim_updates
            THEN /\ stats.requests_sent < AppMaxUpdates
                 /\ Len(chan.gui_to_psim) < PipeCapacity
                 /\ chan' = [chan EXCEPT !.gui_to_psim =
                                Append(@, Message("REQUEST_SIM_UPDATE"))]
                 /\ stats' = [stats EXCEPT !.requests_sent = @ + 1]
                 /\ gui' = [gui EXCEPT !.request_sim_updates = FALSE,
                                       !.pc = "receive"]
            ELSE /\ gui' = [gui EXCEPT !.pc = "receive"]
                 /\ UNCHANGED <<chan, stats>>
       ELSE /\ gui' = [gui EXCEPT !.pc = "advance"]
            /\ UNCHANGED <<chan, stats>>
    /\ UNCHANGED <<psim, main>>
    /\ UNCHANGED nonAppVars

\* if 'particles' not in partial_state: look for a SIM_UPDATE; its time is
\* asserted to be the one of the partial state.
GuiReceive ==
    /\ gui.pc = "receive"
    /\ IF ~gui.has_particles /\ chan.psim_to_gui # <<>>
       THEN /\ chan' = [chan EXCEPT !.psim_to_gui = Tail(@)]
            /\ stats' = [stats EXCEPT !.updates_consumed =
                             IF Head(chan.psim_to_gui).type = "SIM_UPDATE"
                             THEN @ + 1 ELSE @]
            /\ gui' = IF Head(chan.psim_to_gui).type # "SIM_UPDATE"
                      THEN [gui EXCEPT !.fault = "AttributeError",
                                       !.pc = "raised"]
                      ELSE IF 10 * Abs(Head(chan.psim_to_gui).time
                                       - gui.partial_time) < time_step
                      THEN [gui EXCEPT !.pc = "metadata"]
                      ELSE [gui EXCEPT !.fault = "AssertionError",
                                       !.pc = "raised"]
       ELSE /\ gui' = [gui EXCEPT !.pc = "advance"]
            /\ UNCHANGED <<chan, stats>>
    /\ UNCHANGED <<psim, main>>
    /\ UNCHANGED nonAppVars

\* _receive_buffer: the metadata, then the data, each waited for.
GuiReceiveBuffer ==
    /\ gui.pc \in {"metadata", "data"}
    /\ chan.psim_to_gui # <<>>
    /\ chan' = [chan EXCEPT !.psim_to_gui = Tail(@)]
    /\ gui' = IF Head(chan.psim_to_gui).type # gui.pc
              THEN [gui EXCEPT !.fault = "UnpicklingError", !.pc = "raised"]
              ELSE IF gui.pc = "metadata" THEN [gui EXCEPT !.pc = "data"]
              ELSE [gui EXCEPT !.has_particles = TRUE, !.pc = "advance"]
    /\ UNCHANGED <<psim, main, stats>>
    /\ UNCHANGED nonAppVars

\* The rest of the loop: a complete partial state becomes the next state,
\* and the next state becomes the current one once the accumulator has
\* reached the time step (elapsed).
GuiAdvance(elapsed) ==
    /\ gui.pc = "advance"
    /\ LET next_state == IF gui.has_particles THEN Some(gui.partial_time)
                         ELSE gui.next_state
           request == gui.has_particles \/ gui.request_sim_updates
       IN  gui' = IF elapsed /\ next_state # None
                  THEN [gui EXCEPT !.current_time = next_state.v,
                                   !.partial_time = next_state.v + time_step,
                                   !.has_particles = FALSE,
                                   !.next_state = None,
                                   !.request_sim_updates = request,
                                   !.pc = "control"]
                  ELSE [gui EXCEPT !.next_state = next_state,
                                   !.request_sim_updates = request,
                                   !.pc = "control"]
    /\ UNCHANGED <<psim, main, chan, stats>>
    /\ UNCHANGED nonAppVars

\* Faulty variant: the exception is not reported.
GuiRaised_Silent ==
    /\ gui.pc = "raised"
    /\ gui' = [gui EXCEPT !.pc = "done"]
    /\ UNCHANGED <<psim, main, chan, stats>>
    /\ UNCHANGED nonAppVars

\* _process_wrapper: an exception of the GUI process is reported upwards.
GuiRaised ==
    /\ gui.pc = "raised"
    /\ chan' = [chan EXCEPT !.upwards =
                    Append(@, [Message("ERROR") EXCEPT !.process_name = "gui"])]
    /\ gui' = [gui EXCEPT !.pc = "done"]
    /\ stats' = [stats EXCEPT !.errors_sent.gui = @ + 1]
    /\ UNCHANGED <<psim, main>>
    /\ UNCHANGED nonAppVars

\* Faulty variant: the loop goes on after a STOP.
PsimControl_IgnoreStop ==
    /\ psim.pc = "control"
    /\ IF chan.downwards # <<>>
       THEN /\ chan' = [chan EXCEPT !.downwards = Tail(@)]
            /\ psim' = [psim EXCEPT !.pc = "drain"]
            /\ stats' = [stats EXCEPT
                            !.stops_received.particle_simulation = @ + 1]
       ELSE /\ psim' = [psim EXCEPT !.pc = "drain"]
            /\ UNCHANGED <<chan, stats>>
    /\ UNCHANGED <<gui, main>>
    /\ UNCHANGED nonAppVars

\* _particle_simulation_process, top of the loop.
PsimControl ==
    /\ psim.pc = "control"
    /\ IF chan.downwards # <<>>
       THEN /\ chan' = [chan EXCEPT !.downwards = Tail(@)]
            /\ psim' = [psim EXCEPT !.pc = "done"]
            /\ stats' = [stats EXCEPT
                            !.stops_received.particle_simulation = @ + 1]
       ELSE /\ psim' = [psim EXCEPT !.pc = "drain"]
            /\ UNCHANGED <<chan, stats>>
    /\ UNCHANGED <<gui, main>>
    /\ UNCHANGED nonAppVars

\* Faulty variant: callbacks that are pending are kept when others arrive.
PsimDrain_KeepFirst ==
    /\ psim.pc = "drain"
    /\ IF chan.gui_to_psim = <<>>
       THEN /\ psim' = [psim EXCEPT !.pc = "step"]
            /\ UNCHANGED <<chan, stats>>
       ELSE LET message == Head(chan.gui_to_psim)
            IN  /\ chan' = [chan EXCEPT !.gui_to_psim = Tail(@)]
                /\ IF message.type = "REQUEST_SIM_UPDATE"
                   THEN /\ psim' = [psim EXCEPT !.send = TRUE]
                        /\ stats' = [stats EXCEPT !.requests_received = @ + 1]
                   ELSE /\ psim' = [psim EXCEPT
                                        !.callbacks = IF @ = NoCallbacks
                                                     THEN message.callbacks ELSE @]
                        /\ stats' = [stats EXCEPT !.callbacks_received =
                                         Append(@, [callbacks |->
                                                        message.callbacks,
                                                    steps |-> stats.steps])]
    /\ UNCHANGED <<gui, main>>
    /\ UNCHANGED nonAppVars

\* The inner loop: every message of the GUI process that has arrived.
PsimDrain ==
    /\ psim.pc = "drain"
    /\ IF chan.gui_to_psim = <<>>
       THEN /\ psim' = [psim EXCEPT !.pc = "step"]
            /\ UNCHANGED <<chan, stats>>
       ELSE LET message == Head(chan.gui_to_psim)
            IN  /\ chan' = [chan EXCEPT !.gui_to_psim = Tail(@)]
                /\ IF message.type = "REQUEST_SIM_UPDATE"
                   THEN /\ psim' = [psim EXCEPT !.send = TRUE]
                        /\ stats' = [stats EXCEPT !.requests_received = @ + 1]
                   ELSE /\ psim' = [psim EXCEPT
                                        !.callbacks = message.callbacks]
                        /\ stats' = [stats EXCEPT !.callbacks_received =
                                         Append(@, [callbacks |->
                                                        message.callbacks,
                                                    steps |-> stats.steps])]
    /\ UNCHANGED <<gui, main>>
    /\ UNCHANGED nonAppVars

\* The callbacks received and sim.step() run code of the user, which may
\* raise; so may the copy and the sends of a buffer, between the parts of
\* an update.
PsimFault(kind) ==
    /\ \/ psim.pc = "step" /\ psim.step
       \/ psim.pc \in {"metadata", "data"}
    /\ psim' = [psim EXCEPT !.fault = kind,
                            !.pc = IF kind = "Exception" THEN "raised"
                                   ELSE "done"]
    /\ UNCHANGED <<gui, main, chan, stats>>
    /\ UNCHANGED nonAppVars

\* What the block under "if step" runs, in order, and the callbacks it has
\* applied so far, each with the number of the step it came before.
Ran(payload) ==
    IF payload # NoCallbacks THEN <<"run_callbacks", "consolidate", "step">>
    ELSE <<"step">>

Applied(applied, payload, step) ==
    IF payload # NoCallbacks
    THEN Append(applied, [callbacks |-> payload, step |-> step])
    ELSE applied

\* Faulty variant: step is left set.
PsimStep_KeepStepping ==
    /\ psim.pc = "step"
    /\ IF psim.step
       THEN /\ psim' = [psim EXCEPT
                           !.applied = Applied(@, psim.callbacks,
                                               stats.steps + 1),
                           !.ran = Ran(psim.callbacks),
                           !.callbacks = NoCallbacks,
                           !.time = @ + time_step,
                           !.pc = "send"]
            /\ stats' = [stats EXCEPT !.steps = @ + 1]
       ELSE /\ psim' = [psim EXCEPT !.ran = <<>>, !.pc = "send"]
            /\ UNCHANGED stats
    /\ UNCHANGED <<gui, main, chan>>
    /\ UNCHANGED nonAppVars

\* Faulty variant: the callbacks are kept once they have run.
PsimStep_KeepCallbacks ==
    /\ psim.pc = "step"
    /\ IF psim.step
       THEN /\ psim' = [psim EXCEPT
                           !.applied = Applied(@, psim.callbacks,
                                               stats.steps + 1),
                           !.ran = Ran(psim.callbacks),
                           !.time = @ + time_step,
                           !.step = FALSE,
                           !.pc = "send"]
            /\ stats' = [stats EXCEPT !.steps = @ + 1]
       ELSE /\ psim' = [psim EXCEPT !.ran = <<>>, !.pc = "send"]
            /\ UNCHANGED stats
    /\ UNCHANGED <<gui, main, chan>>
    /\ UNCHANGED nonAppVars

\* if step: the callbacks received, consolidate, then sim.step()
PsimStep ==
    /\ psim.pc = "step"
    /\ IF psim.step
       THEN /\ psim' = [psim EXCEPT
                           !.applied = Applied(@, psim.callbacks,
                                               stats.steps + 1),
                           !.ran = Ran(psim.callbacks),
                           !.callbacks = NoCallbacks,
                           !.time = @ + time_step,
                           !.step = FALSE,
                           !.pc = "send"]
            /\ stats' = [stats EXCEPT !.steps = @ + 1]
       ELSE /\ psim' = [psim EXCEPT !.ran = <<>>, !.pc = "send"]
            /\ UNCHANGED stats
    /\ UNCHANGED <<gui, main, chan>>
    /\ UNCHANGED nonAppVars

\* if send: the SIM_UPDATE message with the time of the simulation
PsimSend ==
    /\ psim.pc = "send"
    /\ IF psim.send
       THEN /\ Len(chan.psim_to_gui) < PipeCapacity
            /\ chan' = [chan EXCEPT !.psim_to_gui =
                           Append(@, [Message("SIM_UPDATE") EXCEPT
                                         !.time = psim.time])]
            /\ stats' = [stats EXCEPT !.updates_sent = @ + 1,
                                      !.update_times = Append(@, psim.time)]
            /\ psim' = [psim EXCEPT !.pc = "metadata"]
       ELSE /\ psim' = [psim EXCEPT !.pc = "control"]
            /\ UNCHANGED <<chan, stats>>
    /\ UNCHANGED <<gui, main>>
    /\ UNCHANGED nonAppVars

\* Faulty variant: no step is asked for once the buffer is sent.
PsimSendBuffer_NoStep ==
    /\ psim.pc \in {"metadata", "data"}
    /\ Len(chan.psim_to_gui) < PipeCapacity
    /\ chan' = [chan EXCEPT !.psim_to_gui = Append(@, Message(psim.pc))]
    /\ psim' = IF psim.pc = "metadata" THEN [psim EXCEPT !.pc = "data"]
               ELSE [psim EXCEPT !.send = FALSE, !.pc = "control"]
    /\ UNCHANGED <<gui, main, stats>>
    /\ UNCHANGED nonAppVars

\* _send_buffer: the metadata, then the data
PsimSendBuffer ==
    /\ psim.pc \in {"metadata", "data"}
    /\ Len(chan.psim_to_gui) < PipeCapacity
    /\ chan' = [chan EXCEPT !.psim_to_gui = Append(@, Message(psim.pc))]
    /\ psim' = IF psim.pc = "metadata" THEN [psim EXCEPT !.pc = "data"]
               ELSE [psim EXCEPT !.step = TRUE, !.send = FALSE,
                                 !.pc = "control"]
    /\ UNCHANGED <<gui, main, stats>>
    /\ UNCHANGED nonAppVars

\* _process_wrapper: an exception of the simulation process is reported
\* upwards.
PsimRaised ==
    /\ psim.pc = "raised"
    /\ chan' = [chan EXCEPT !.upwards =
                    Append(@, [Message("ERROR") EXCEPT
                                  !.process_name = "particle_simulation"])]
    /\ psim' = [psim EXCEPT !.pc = "done"]
    /\ stats' = [stats EXCEPT !.errors_sent.particle_simulation = @ + 1]
    /\ UNCHANGED <<gui, main>>
    /\ UNCHANGED nonAppVars

\* Faulty variant: the status is SUCCESS whatever the message is.
MainReceive_Success ==
    /\ main.pc = "wait"
    /\ chan.upwards # <<>>
    /\ chan' = [chan EXCEPT !.upwards = Tail(@)]
    /\ main' = [main EXCEPT !.pc = "stopping", !.stops_left = 2,
                            !.status = "SUCCESS"]
    /\ UNCHANGED <<gui, psim, stats>>
    /\ UNCHANGED nonAppVars

\* _main_process: the first QUIT or ERROR ends its loop.
MainReceive ==
    /\ main.pc = "wait"
    /\ chan.upwards # <<>>
    /\ chan' = [chan EXCEPT !.upwards = Tail(@)]
    /\ main' = [main EXCEPT !.pc = "stopping", !.stops_left = 2,
                            !.status = IF Head(chan.upwards).type = "ERROR"
                                       THEN "FAILURE" ELSE "SUCCESS"]
    /\ UNCHANGED <<gui, psim, stats>>
    /\ UNCHANGED nonAppVars

\* finally: one STOP for each process
MainStop ==
    /\ main.pc = "stopping"
    /\ chan' = [chan EXCEPT !.downwards = Append(@, Message("STOP"))]
    /\ main' = [main EXCEPT !.stops_left = @ - 1,
                            !.pc = IF main.stops_left = 1 THEN "join"
                                   ELSE "stopping"]
    /\ stats' = [stats EXCEPT !.stops_sent = @ + 1]
    /\ UNCHANGED <<gui, psim>>
    /\ UNCHANGED nonAppVars

\* _run, finally: the processes are joined in the order gui, then
\* particle_simulation.  The one being waited for is alive until it has
\* ended.
Joining == IF main.joined = 0 THEN gui ELSE psim

OutputPipe == IF main.joined = 0 THEN "gui_to_psim" ELSE "psim_to_gui"

\* while process.instance.is_alive(): what the process has put on the
\* upwards queue and into its pipe is flushed, that is, read and dropped.
MainFlush ==
    /\ main.pc = "join"
    /\ Joining.pc # "done"
    /\ chan.upwards # <<>> \/ chan[OutputPipe] # <<>>
    /\ chan' = [chan EXCEPT !.upwards = <<>>, ![OutputPipe] = <<>>]
    /\ UNCHANGED <<gui, psim, main, stats>>
    /\ UNCHANGED nonAppVars

\* process.instance.join(), and return return_code after the last one.
MainJoin ==
    /\ main.pc = "join"
    /\ Joining.pc = "done"
    /\ main' = [main EXCEPT !.joined = @ + 1,
                            !.pc = IF main.joined = 1 THEN "done" ELSE "join"]
    /\ UNCHANGED <<gui, psim, chan, stats>>
    /\ UNCHANGED nonAppVars

NextApp ==
    \/ GuiControl
    \/ GuiQuit
    \/ \E kind \in FaultKinds : GuiFault(kind)
    \/ \E with_callbacks \in BOOLEAN : GuiEvents(with_callbacks)
    \/ GuiSendCallbacks
    \/ GuiRequest
    \/ GuiReceive
    \/ GuiReceiveBuffer
    \/ \E elapsed \in BOOLEAN : GuiAdvance(elapsed)
    \/ GuiRaised
    \/ PsimControl
    \/ PsimDrain
    \/ \E kind \in FaultKinds : PsimFault(kind)
    \/ PsimStep
    \/ PsimSend
    \/ PsimSendBuffer
    \/ PsimRaised
    \/ MainReceive
    \/ MainStop
    \/ MainFlush
    \/ MainJoin

SpecApp == InitApp /\ [][NextApp]_vars

\* The steps of each process, and the application with each process
\* scheduled fairly: a process that can take a step takes one.
GuiNext ==
    \/ GuiControl
    \/ GuiQuit
    \/ \E kind \in FaultKinds : GuiFault(kind)
    \/ \E with_callbacks \in BOOLEAN : GuiEvents(with_callbacks)
    \/ GuiSendCallbacks
    \/ GuiRequest
    \/ GuiReceive
    \/ GuiReceiveBuffer
    \/ \E elapsed \in BOOLEAN : GuiAdvance(elapsed)
    \/ GuiRaised

PsimNext ==
    \/ PsimControl
    \/ PsimDrain
    \/ \E kind \in FaultKinds : PsimFault(kind)
    \/ PsimStep
    \/ PsimSend
    \/ PsimSendBuffer
    \/ PsimRaised

MainNext ==
    \/ MainReceive
    \/ MainStop
    \/ MainFlush
    \/ MainJoin

NextFair == GuiNext \/ PsimNext \/ MainNext

SpecAppFair ==
    /\ InitApp
    /\ [][NextFair]_vars
    /\ WF_vars(GuiNext)
    /\ WF_vars(PsimNext)
    /\ WF_vars(MainNext)

\* The steps of a process that are its own: the user neither quits nor
\* has code of theirs raise because the process is scheduled.
GuiSteps ==
    \/ GuiControl
    \/ \E with_callbacks \in BOOLEAN : GuiEvents(with_callbacks)
    \/ GuiSendCallbacks
    \/ GuiRequest
    \/ GuiReceive
    \/ GuiReceiveBuffer
    \/ \E elapsed \in BOOLEAN : GuiAdvance(elapsed)
    \/ GuiRaised

PsimSteps ==
    \/ PsimControl
    \/ PsimDrain
    \/ PsimStep
    \/ PsimSend
    \/ PsimSendBuffer
    \/ PsimRaised

\* The application with the own steps of each process scheduled fairly and
\* the clock of the GUI process running: the accumulator reaches the time
\* step again and again.
SpecAppProgress ==
    /\ InitApp
    /\ [][NextFair]_vars
    /\ WF_vars(GuiSteps)
    /\ WF_vars(PsimSteps)
    /\ WF_vars(MainNext)
    /\ SF_vars(GuiAdvance(TRUE))


\* C20: the requests the GUI process has sent are as many as the updates it
\* has taken, or one more; the updates the simulation process has sent are
\* never more than the requests it has received.
C20_FlowControl ==
    /\ stats.requests_sent - stats.updates_consumed \in {0, 1}
    /\ stats.updates_sent <= stats.requests_received

\* C20 witness: the second request is out and was not received yet, after
\* the first update was sent and taken.
C20_Witness ==
    /\ stats.requests_sent = 2
    /\ stats.updates_consumed = 1
    /\ stats.requests_received = 1
    /\ stats.updates_sent = 1

\* The GUI process replaces its current state: the swap of GuiAdvance.
GuiSwaps ==
    /\ gui.pc = "advance"
    /\ gui'.pc = "control"
    /\ gui'.next_state = None
    /\ (gui.has_particles \/ gui.next_state # None)

\* C21: the times of the SIM_UPDATE messages sent one after the other are
\* strictly increasing, and the GUI process replaces its current state only
\* by a state of a strictly greater time.
C21_IncreasingTimes ==
    [][/\ \A i \in 2..Len(stats'.update_times) :
             stats'.update_times[i] > stats'.update_times[i - 1]
       /\ GuiSwaps => gui'.current_time > gui.current_time]_vars

\* C21 witness: two updates were sent and the GUI process has replaced its
\* current state by each of them.
C21_Witness ==
    /\ Len(stats.update_times) = 2
    /\ time_step > 0
    /\ gui.current_time = 2 * time_step

\* What each process has sent so far, the parts of a buffer aside.
GuiSent ==
    <<stats.requests_sent, stats.callbacks_sent, stats.quits_sent,
      stats.errors_sent.gui>>

PsimSent == <<stats.updates_sent, stats.errors_sent.particle_simulation>>

\* The exception of a process is reported by this step: one ERROR message
\* with the name of the process is put on the upwards queue.
Reports(name) ==
    /\ chan'.upwards =
           Append(chan.upwards, [Message("ERROR") EXCEPT !.process_name = name])
    /\ stats'.errors_sent[name] = 1

\* A process that has ended does nothing more.
GuiEnded ==
    gui.pc = "done" =>
        /\ gui' = gui
        /\ GuiSent' = GuiSent
        /\ Len(chan'.gui_to_psim) <= Len(chan.gui_to_psim)

PsimEnded ==
    psim.pc = "done" =>
        /\ psim' = psim
        /\ PsimSent' = PsimSent
        /\ Len(chan'.psim_to_gui) <= Len(chan.psim_to_gui)

\* The main process answers an ERROR with one STOP for each process.
StopsOnError ==
    /\ (main.pc = "wait" /\ main'.pc # "wait"
            /\ Head(chan.upwards).type = "ERROR")
        => main'.pc = "stopping" /\ main'.stops_left = 2
    /\ (main.pc = "stopping" /\ main' # main)
        => /\ chan'.downwards = Append(chan.downwards, Message("STOP"))
           /\ stats'.stops_sent = stats.stops_sent + 1
    /\ stats'.stops_sent # stats.stops_sent => main.pc = "stopping"
    /\ main'.pc \in {"join", "done"} => stats'.stops_sent = 2

C23_StatusOfFirstMessage ==
    [][/\ (main.pc = "wait" /\ main'.pc # "wait")
            => /\ Head(chan.upwards).type \in {"ERROR", "QUIT"}
               /\ main'.status = IF Head(chan.upwards).type = "ERROR"
                                 THEN "FAILURE" ELSE "SUCCESS"
       /\ main.pc # "wait" => main'.status = main.status
       /\ main'.pc = "wait" => main'.status = "none"
       /\ main'.pc = "done" => stats'.stops_sent = 2
       /\ (main.pc # "wait" /\ Len(chan'.upwards) < Len(chan.upwards))
            => chan'.upwards = <<>> /\ main' = main]_vars

\* C23 witness: run() has returned SUCCESS for a QUIT, with the ERROR that
\* the simulation process sent after it left unread.
C23_Witness ==
    /\ main.pc = "done"
    /\ main.status = "SUCCESS"
    /\ stats.quits_sent = 1
    /\ stats.errors_sent.particle_simulation = 1
    /\ Len(chan.upwards) = 1
    /\ Head(chan.upwards).type = "ERROR"

\* C24: once the main process has received a QUIT or an ERROR, the GUI
\* process and the simulation process end and run() returns, whatever the
\* interleaving, a fault between the parts of an update included.
C24_ShutdownCompletes ==
    (main.status # "none")
        ~> (gui.pc = "done" /\ psim.pc = "done" /\ main.pc = "done")

\* ----------------------------------------------- more on ParticleSimulation
\* C25: the statements of step() itself, the advance of the time and the
\* integration, leave every particle of the pending buffer as it is, its
\* force, velocity and position included, and move none into the store;
\* only a consolidate does.
C25_PendingNotIntegrated ==
    [][(pc = "solve" \/ (pc = "idle" /\ pc' # "idle"))
        => /\ Pending' = Pending
           /\ buffer' = buffer
           /\ Ids(Store') = Ids(Store)]_vars

\* C25 witness: after two steps of a simulation with no presolve callback a
\* particle added with a force is still pending, with that force.
C25_Witness ==
    /\ ~callbacks.presolve
    /\ time = 2 * time_step
    /\ pc = "idle"
    /\ last_op.name = "solve"
    /\ Pending # <<>>
    /\ Pending[1].force = <<1, 2>>
    /\ Pending[1].velocity = <<0, 0>>

\* The integration on its own: a simulation without callbacks whose store
\* holds two particles, the first one added with a position, a velocity, a
\* force and a mass of the sets below (forces that the masses divide, so
\* that the quotients are exact), the second one with the defaults; then
\* step() after step().
SolvePositions == {<<0, 0>>, <<1, -1>>}

SolveVelocities == {<<0, 0>>, <<1, -2>>}

SolveForces == {<<0, 0>>, <<2, 4>>, <<-2, 0>>}

SolveMasses == {1, 2}

InitSolve ==
    /\ \E position \in SolvePositions, velocity \in SolveVelocities,
          force \in SolveForces, mass \in SolveMasses, step \in TimeSteps :
          LET first == [DefaultParticle EXCEPT
                           !.id = 0, !.position = position,
                           !.velocity = velocity, !.force = force,
                           !.mass = mass]
              second == [DefaultParticle EXCEPT !.id = 1]
              added == OB_append(OB_append(OB_new, first, BucketCapacity),
                                 second, BucketCapacity)
              r == consolidate(DA_new(InitialCapacity), added, NoTree)
          IN  /\ time_step = step
              /\ array = r.array
              /\ buffer = r.buffer
              /\ created = <<0, 1>>
    /\ time = 0
    /\ last_id = 1
    /\ kd_tree = NoTree
    /\ callbacks = [initialize |-> FALSE, presolve |-> FALSE,
                    postsolve |-> FALSE]
    /\ pc = "idle"
    /\ last_op = Op("consolidate")
    /\ hist = NoHist
    /\ OBIdle
    /\ DAIdle
    /\ KDIdle
    /\ NewIdle
    /\ AppIdle

NextSolve ==
    \/ StepBegin
    \/ Integrate

SpecSolve == InitSolve /\ [][NextSolve]_vars

Plus(u, v) == <<u[1] + v[1], u[2] + v[2]>>

Times(u, k) == <<u[1] * k, u[2] * k>>

Over(u, k) == <<u[1] \div k, u[2] \div k>>

\* C26: the integration of step() gives every particle of the store the
\* velocity velocity + force / mass * time_step, then the position
\* position + velocity' * time_step, with the velocity just computed, and
\* the force 0; a particle without force keeps its velocity and advances
\* by velocity * time_step.
C26_SemiImplicitEuler ==
    [][pc = "solve" =>
        /\ Len(Store') = Len(Store)
        /\ \A k \in 1..Len(Store) :
              LET p == Store[k]
                  q == Store'[k]
              IN  /\ q.velocity = Plus(p.velocity,
                                       Times(Over(p.force, p.mass), time_step))
                  /\ q.position = Plus(p.position,
                                       Times(q.velocity, time_step))
                  /\ q.force = <<0, 0>>
                  /\ q.id = p.id /\ q.mass = p.mass /\ q.alive = p.alive
                  /\ p.force = <<0, 0>>
                      => /\ q.velocity = p.velocity
                         /\ q.position = Plus(p.position,
                                              Times(p.velocity, time_step))]_vars

\* C26 witness: the second step is over for a particle of mass 2 that had
\* the force <<2, 4>> and the velocity <<1, -2>>: the velocity is the one
\* of the first step, <<2, 0>>, and the position has advanced by it twice.
C26_Witness ==
    /\ time_step = 1
    /\ time = 2
    /\ pc = "idle"
    /\ last_op.name = "solve"
    /\ Store[1].mass = 2
    /\ Store[1].velocity = <<2, 0>>
    /\ Store[1].position = <<4, 0>>
    /\ Store[1].force = <<0, 0>>

\* C27: consolidate copies every surviving particle as it is: the store
\* afterwards is the alive particles of the store before, in their order
\* and with every field unchanged, followed by the alive particles of the
\* pending buffer in insertion order, whether the storage was reallocated
\* or compacted in place; the pending buffer is empty afterwards.
C27_SurvivorsUnchanged ==
    [][last_op'.name = "consolidate" =>
        LET kept == SelectSeq(Store, IsAlive)
            arrived == SelectSeq(Pending, IsAlive)
        IN  /\ Len(Store') = Len(kept) + Len(arrived)
            /\ \A k \in 1..Len(kept) : Store'[k] = kept[k]
            /\ \A k \in 1..Len(arrived) : Store'[Len(kept) + k] = arrived[k]
            /\ Pending' = <<>>
            /\ OB_len(buffer', BucketCapacity) = 0]_vars

\* C27 witness, in place: the store held two particles, the first one was
\* marked not-alive, and consolidate has moved the second one to the front
\* of the same storage.
C27_Witness ==
    /\ last_op.name = "consolidate"
    /\ ~last_op.early
    /\ Len(array.array) > InitialCapacity
    /\ Len(Store) = 1
    /\ Store[1].id = 1

\* C27 witness, reallocated: consolidate has taken two particles into a
\* store that had room for fewer.
C27_WitnessReallocated ==
    /\ last_op.name = "consolidate"
    /\ ~last_op.early
    /\ Len(array.array) > InitialCapacity
    /\ Len(Store) = 2
    /\ Store[1].force = <<1, 2>>

\* Nothing was raised by the code of the user or between the parts of an
\* update: the faults of GuiFault and PsimFault.
NoInjectedFault == gui.fault \notin FaultKinds /\ psim.fault \notin FaultKinds

\* The updates so far carry the times time_step, 2 * time_step, ..., the
\* update the GUI process has taken last is the one of the time it expects,
\* and the GUI process has raised nothing.
UpdatesAsExpected ==
    /\ \A k \in 1..Len(stats.update_times) :
          stats.update_times[k] = k * time_step
    /\ (gui.pc \in {"metadata", "data"} \/ gui.has_particles)
        => /\ stats.updates_consumed >= 1
           /\ stats.update_times[stats.updates_consumed] = gui.partial_time
    /\ gui.partial_time = gui.current_time + time_step
    /\ gui.fault = "none"
    /\ gui.pc # "raised"

\* C28: without injected faults every SIM_UPDATE the GUI process receives
\* carries the time of its partial state, the k-th one k * time_step, so
\* that the assertion on the time never fails and the GUI process raises
\* no error of the protocol.
C28_AssertionNeverFails == NoInjectedFault => UpdatesAsExpected

\* The same for a time step greater than 0.
C28_PositiveTimeStep == (NoInjectedFault /\ time_step > 0) => UpdatesAsExpected

\* C29: the simulation process steps once before each SIM_UPDATE it sends
\* and does not step again before the state of its last step was sent: it
\* steps only when every earlier step was sent, it sends only the state of
\* a step not yet sent, so it is never more than one step ahead, and the
\* state before the first step is never sent.
C29_OneStepAhead ==
    [][/\ stats'.steps - stats'.updates_sent \in {0, 1}
       /\ stats'.steps # stats.steps
            => /\ stats'.steps = stats.steps + 1
               /\ stats.steps = stats.updates_sent
               /\ psim.pc \notin {"metadata", "data"}
       /\ stats'.updates_sent # stats.updates_sent
            => /\ stats'.updates_sent = stats.updates_sent + 1
               /\ stats'.updates_sent = stats.steps
               /\ stats.steps >= 1]_vars

\* C29 witness: the second step is done, one update was sent and the
\* second request has not been received yet.
C29_Witness ==
    /\ stats.steps = 2
    /\ stats.updates_sent = 1
    /\ stats.requests_received = 1
    /\ psim.pc = "send"

\* C30: the callbacks of a RUN_CALLBACKS message are applied once at most,
\* and only by the block that steps: they run, consolidate runs, step()
\* runs, and no callbacks are pending afterwards.  Callbacks received while
\* no step is due stay pending, and a step taken while callbacks are
\* pending applies them first.
C30_CallbacksBeforeStep ==
    [][/\ \A i, j \in 1..Len(psim'.applied) :
             psim'.applied[i].callbacks = psim'.applied[j].callbacks => i = j
       /\ psim'.applied # psim.applied
            => /\ psim.pc = "step" /\ psim.step
               /\ psim.callbacks # NoCallbacks
               /\ psim'.applied =
                      Append(psim.applied, [callbacks |-> psim.callbacks,
                                            step |-> stats'.steps])
               /\ psim'.ran = <<"run_callbacks", "consolidate", "step">>
               /\ psim'.callbacks = NoCallbacks
               /\ stats'.steps = stats.steps + 1
       /\ (stats'.steps # stats.steps /\ psim.callbacks # NoCallbacks)
            => psim'.applied # psim.applied
       /\ (psim.callbacks # NoCallbacks /\ psim'.callbacks # psim.callbacks)
            => \/ stats'.steps # stats.steps
               \/ /\ psim.pc = "drain"
                  /\ chan.gui_to_psim # <<>>
                  /\ Head(chan.gui_to_psim).type = "RUN_CALLBACKS"]_vars

\* C30 witness: callbacks that arrived after the first step, while no step
\* was due, were applied before the second step.
C30_Witness ==
    /\ psim.applied = <<[callbacks |-> 1, step |-> 2]>>
    /\ psim.callbacks = NoCallbacks
    /\ stats.steps = 2

\* C31: of the RUN_CALLBACKS messages received between two steps only the
\* one received last is applied: the callbacks a step applies are those of
\* the message received last, and callbacks followed by another message
\* before the next step are never applied.
C31_LatestCallbacksOnly ==
    [][/\ psim'.applied # psim.applied
            => /\ stats.callbacks_received # <<>>
               /\ psim'.applied[Len(psim'.applied)].callbacks =
                    stats.callbacks_received[
                        Len(stats.callbacks_received)].callbacks
       /\ \A i \in 1..(Len(stats'.callbacks_received) - 1) :
             stats'.callbacks_received[i].steps =
                 stats'.callbacks_received[i + 1].steps
             => \A j \in 1..Len(psim'.applied) :
                   psim'.applied[j].callbacks #
                       stats'.callbacks_received[i].callbacks]_vars

\* C31 witness: two messages with callbacks were received after the first
\* step and the second step applied those of the second message.
C31_Witness ==
    /\ Len(stats.callbacks_received) = 2
    /\ stats.callbacks_received[1].steps = 1
    /\ stats.callbacks_received[2].steps = 1
    /\ psim.applied = <<[callbacks |-> 2, step |-> 2]>>

\* C32: the main process puts one STOP per child process on the downwards
\* queue; a process takes one STOP at most and ends its loop with it,
\* after which it steps no more and sends neither an update nor a request;
\* and a process at the top of its loop once the STOPs are on the queue
\* takes one.
C32_StopDelivery ==
    /\ [][/\ stats'.stops_sent <= 2
          /\ (main'.pc \in {"join", "done"}) => stats'.stops_sent = 2
          /\ stats'.stops_sent = Len(chan'.downwards)
                                    + stats'.stops_received.gui
                                    + stats'.stops_received.particle_simulation
          /\ stats'.stops_received.gui <= 1
          /\ stats'.stops_received.particle_simulation <= 1
          /\ (stats'.stops_received.gui # stats.stops_received.gui)
               => gui'.pc = "done"
          /\ (stats'.stops_received.particle_simulation
                 # stats.stops_received.particle_simulation)
               => psim'.pc = "done"
          /\ (stats.stops_received.gui = 1)
               => /\ gui' = gui
                  /\ stats'.requests_sent = stats.requests_sent
                  /\ Len(chan'.gui_to_psim) <= Len(chan.gui_to_psim)
          /\ (stats.stops_received.particle_simulation = 1)
               => /\ psim' = psim
                  /\ stats'.steps = stats.steps
                  /\ stats'.updates_sent = stats.updates_sent
                  /\ Len(chan'.psim_to_gui) <= Len(chan.psim_to_gui)]_vars
    /\ (stats.stops_sent = 2 /\ gui.pc = "control")
          ~> (stats.stops_received.gui = 1)
    /\ (stats.stops_sent = 2 /\ psim.pc = "control")
          ~> (stats.stops_received.particle_simulation = 1)

\* C32 witness: the GUI process has quit, the simulation process was in
\* its loop after a step when the STOPs were put on the queue and has taken
\* one; the other STOP stays on the queue.
C32_Witness ==
    /\ stats.stops_sent = 2
    /\ stats.quits_sent = 1
    /\ stats.stops_received.gui = 0
    /\ stats.stops_received.particle_simulation = 1
    /\ stats.steps >= 1
    /\ Len(chan.downwards) = 1
    /\ main.pc = "done"

\* A STOP, a QUIT or an error has occurred.
Disturbed ==
    \/ stats.quits_sent > 0
    \/ stats.stops_sent > 0
    \/ gui.fault # "none"
    \/ psim.fault # "none"

\* C33: unless a STOP, a QUIT or an error occurs, each request of the GUI
\* process is answered by an update that the GUI process receives, and the
\* state displayed then moves on by one time step: neither process waits
\* for the other forever.
C33_RequestsAnswered ==
    \A k \in 1..AppMaxUpdates :
        (stats.requests_sent = k)
            ~> \/ Disturbed
               \/ /\ stats.updates_consumed >= k
                  /\ gui.current_time = k * time_step

\* C34: a sorted search for the k < n nearest points within a radius r
\* returns the first min(k, m) neighbours of the sorted search for all the
\* points within r, m being how many those are; a point at the distance r
\* exactly is in both results or in neither.
C34_PathsAgree ==
    (/\ kdt_op.name = "search"
     /\ kdt_op.path = "nearests"
     /\ kdt_op.radius # None)
    => LET all == KD_search(kdt, kdt_op.point, None, kdt_op.radius,
                            TRUE).result
           m == IF kdt_op.count.v <= Len(all) THEN kdt_op.count.v
                ELSE Len(all)
       IN  kdt_op.result = SubSeq(all, 1, m)

\* The nodes whose parent, in the first pass of _build, is node i.
KDChildren(i) == {j \in 0..(Len(kdt.nodes) - 1) : kdt.parents[j + 1] = i}

\* C35: the nodes of a tree that was built are in pre-order: the children
\* of a node i that is not a leaf are the nodes i + 1 and
\* i + 1 + size[i + 1], its size is 1 plus the sizes of the two, a node is
\* a leaf (it has a bucket, and no child) exactly when its size is 1, and
\* the size of the root is the number of nodes.
C35_PreOrderLayout ==
    kdt.status = "built"
    => LET n == Len(kdt.nodes)
           size(i) == kdt.nodes[i + 1].size
       IN  /\ n >= 1
           /\ size(0) = n
           /\ \A i \in 0..(n - 1) :
                 /\ (size(i) = 1) <=> (kdt.nodes[i + 1].bucket # -1)
                 /\ (size(i) = 1) <=> (KDChildren(i) = {})
                 /\ kdt.nodes[i + 1].bucket # -1
                      => kdt.nodes[i + 1].bucket \in 0..(Len(kdt.buckets) - 1)
                 /\ kdt.nodes[i + 1].bucket = -1
                      => /\ i + 1 < n
                         /\ size(i + 1) >= 1
                         /\ i + 1 + size(i + 1) < n
                         /\ KDChildren(i) = {i + 1, i + 1 + size(i + 1)}
                         /\ size(i) = 1 + size(i + 1)
                                        + size(i + 1 + size(i + 1))

\* C35 witness: a tree of five nodes, the left child of the root with two
\* leaves of its own, the right child of the root at index 4; a search for
\* the nearest point has found the point in the bucket of that right child.
C35_Witness ==
    /\ kdt.status = "built"
    /\ Len(kdt.nodes) = 5
    /\ kdt.parents = <<-1, 0, 1, 1, 0>>
    /\ kdt.nodes[2].size = 3
    /\ kdt_op.name = "search"
    /\ kdt_op.path = "nearests"
    /\ Len(kdt_op.result) = 1
    /\ <<kdt_op.result[1].index>> = kdt.buckets[kdt.nodes[5].bucket + 1]

\* The indices of the points in the subtree of node i: those of the buckets
\* of its leaves.
KDSubtree(i) == KD_leaf_indices(kdt, i, i + kdt.nodes[i + 1].size - 1)

\* C36: in a tree built over n >= 1 points every index 0..n-1 is in one
\* bucket and only once; a leaf holds from 1 to bucket_size points; a node
\* that is not a leaf holds more than bucket_size points and each of its
\* children holds one at least; and the bounds of a node are the smallest
\* and the largest coordinates of the points of its subtree.
C36_BucketsAndBounds ==
    kdt.status = "built"
    => LET n == Len(kdt.data)
           all == KDSubtree(0)
       IN  /\ n >= 1
           /\ Len(all) = n
           /\ {all[k] : k \in 1..Len(all)} = 0..(n - 1)
           /\ Len(Flatten(kdt.buckets)) = n
           /\ \A i \in 0..(Len(kdt.nodes) - 1) :
                 LET node == kdt.nodes[i + 1]
                     held == KDSubtree(i)
                     coords(c) == {kdt.data[held[k] + 1][c] :
                                      k \in 1..Len(held)}
                 IN  /\ Len(held) >= 1
                     /\ node.bucket # -1
                          => /\ held = kdt.buckets[node.bucket + 1]
                             /\ Len(held) <= kdt.bucket_size
                     /\ node.bucket = -1
                          => /\ Len(held) > kdt.bucket_size
                             /\ \A j \in KDChildren(i) :
                                   Len(KDSubtree(j)) >= 1
                     /\ \A c \in 1..2 :
                           /\ node.lower_bounds[c] \in coords(c)
                           /\ node.upper_bounds[c] \in coords(c)
                           /\ \A x \in coords(c) :
                                 /\ node.lower_bounds[c] <= x
                                 /\ x <= node.upper_bounds[c]

\* C36 witness: three points in a tree of bucket_size 2 whose root was
\* split into a leaf of two points and a leaf of one; a search has returned
\* the three of them.
C36_Witness ==
    /\ kdt.status = "built"
    /\ kdt.bucket_size = 2
    /\ Len(kdt.data) = 3
    /\ Len(kdt.nodes) = 3
    /\ Len(kdt.buckets[1]) = 2
    /\ Len(kdt.buckets[2]) = 1
    /\ kdt.nodes[1].lower_bounds # kdt.nodes[1].upper_bounds
    /\ kdt_op.name = "search"
    /\ kdt_op.path = "all"
    /\ Len(kdt_op.result) = 3

\* C37: _build returns for every point set that is not empty and every
\* bucket_size >= 1, also when more than bucket_size points are the same.
C37_BuildTerminates ==
    (Len(kdt.data) >= 1 /\ kdt.bucket_size >= 1) => kdt.status # "hangs"

\* C38: get_neighbour_particles on a simulation whose store is empty
\* returns without raising.
C38_EmptyStoreNoError ==
    (last_op.name = "get_neighbour_particles" /\ DA_len(array) = 0)
    => ~last_op.error

\* C39: add_particles(0) returns without raising, adds nothing to the
\* buffer and leaves the last id as it was.
C39_AddNoParticles ==
    [][(last_op'.name = "add_particles" /\ last_op'.count = 0)
       => /\ ~last_op'.error
          /\ Pending' = Pending
          /\ last_id' = last_id]_vars

\* What the search for the nearest points last made did, node by node and
\* point by point, and the limit it began with: the radius squared.
KDLimit == IF kdt_op.radius = None THEN Infinity ELSE Sq(kdt_op.radius.v)

KDTrace ==
    KD_k_nearests_loop(kdt, kdt_op.point, kdt_op.count.v,
                       KD_root_stack(kdt, kdt_op.point),
                       [nearests |-> {}, dist_limit |-> KDLimit,
                        trace |-> <<>>]).trace

IsNearestsPath == kdt_op.name = "search" /\ kdt_op.path = "nearests"

\* What holds of dist_limit all along a search for the nearest points: it
\* begins as the radius squared, is that while fewer than count neighbours
\* are held, changes only when a neighbour is popped, to the distance of
\* that neighbour, never increases, and no neighbour held is farther; a
\* node is passed over exactly when it is farther than dist_limit.
KDLimitRules(t) ==
    \A n \in 1..Len(t) :
        /\ t[n].before = (IF n = 1 THEN KDLimit ELSE t[n - 1].limit)
        /\ Cardinality(t[n].held) <= kdt_op.count.v
        /\ Cardinality(t[n].held) < kdt_op.count.v => t[n].limit = KDLimit
        /\ t[n].popped = None => t[n].limit = t[n].before
        /\ t[n].popped # None
             => /\ t[n].limit = t[n].popped.v
                /\ Cardinality(t[n].held) = kdt_op.count.v
        /\ Le(t[n].limit, t[n].before)
        /\ t[n].limit = Infinity => t[n].before = Infinity
        /\ \A a \in t[n].held : Le(a.squared_distance, t[n].limit)
        /\ t[n].node # -1 => (t[n].skipped <=> Gt(t[n].dist, t[n].before))

\* C40 as stated: besides, dist_limit is the distance of the farthest
\* neighbour held as soon as count neighbours are held.
C40_LimitIsFarthestHeld ==
    IsNearestsPath
    => /\ KDLimitRules(KDTrace)
       /\ \A n \in 1..Len(KDTrace) :
             Cardinality(KDTrace[n].held) >= kdt_op.count.v
             => \E a \in KDTrace[n].held :
                   /\ a.squared_distance = KDTrace[n].limit
                   /\ \A b \in KDTrace[n].held :
                         b.squared_distance <= a.squared_distance

\* C40 amended: during a search for the k nearest points dist_limit is the
\* radius squared until a neighbour is popped, which happens only when
\* count neighbours are held, and from then on the distance of the
\* neighbour popped last, which is at least the distance of the farthest
\* neighbour held; it never increases, and a node is passed over exactly
\* when its least possible distance is greater than dist_limit.
C40_PruningLimit == IsNearestsPath => KDLimitRules(KDTrace)

\* C40 witness: a neighbour was popped, the limit became its distance,
\* greater than that of every neighbour held, and a node farther than this
\* limit was passed over afterwards.
C40_Witness ==
    /\ IsNearestsPath
    /\ \E n \in 1..Len(KDTrace) :
          /\ KDTrace[n].popped # None
          /\ \A a \in KDTrace[n].held :
                a.squared_distance < KDTrace[n].limit
          /\ \E later \in (n + 1)..Len(KDTrace) :
                /\ KDTrace[later].node # -1
                /\ KDTrace[later].skipped

====
